---- MODULE Spec2Model ----
(***************************************************************************)
(* A model of the kstrk event-processing pipeline: the Tokenizer           *)
(* (tokenize/mod.rs), the live statistics engine (stats/mod.rs), the       *)
(* SQLite aggregation store (storage/mod.rs), the single-instance lock     *)
(* (daemon/lock.rs) and the daemon's consumer loop (daemon/mod.rs).        *)
(*                                                                         *)
(* Each component has its own specification (SpecTok, SpecStats,           *)
(* SpecMilestones, SpecStore, SpecLock, SpecDaemon) over the one set of    *)
(* variables; a specification leaves the other components' variables at    *)
(* their initial values.                                                   *)
(***************************************************************************)
EXTENDS Integers, Sequences, FiniteSets, TLC

(* Option<T>: None is the empty sequence, Some(x) the one-element sequence. *)
None == <<>>
Some(x) == <<x>>
IsSome(o) == o # <<>>
Unwrap(o) == o[1]

(***************************************************************************)
(* Bounds of the model.                                                    *)
(***************************************************************************)
\* Timestamps are counted in ticks; one millisecond is TicksPerMs ticks
\* (DateTime<Utc> resolves nanoseconds, so sub-millisecond gaps exist).
TicksPerMs == 2
\* Event timestamps range over 0..MaxTick ticks.
MaxTick == 3
\* The tokenizer's buffer holds at most MaxBuf events in the model.
MaxBuf == 3
\* At most MaxStoreOps calls are made on the aggregation store.
MaxStoreOps == 3
\* A LiveStats session records at most MaxTotal keystrokes: enough to pass
\* the first two milestones.
MaxTotal == 10001
\* The processes that contend for the instance lock of one data directory.
NumProcs == 2
\* The capture thread sends at most MaxSent events.
MaxSent == 3
\* The rolling window is observed for MaxStatsCalls calls of record, up to
\* second MaxClock of the monotonic clock.
MaxStatsCalls == 4
MaxClock == 4
\* The wall clock shows the days 0..MaxDay.
MaxDay == 4
\* kps() is observed up to second MaxKpsClock of the monotonic clock.
MaxKpsClock == 7
\* A key-event stream fed to one Tokenizer holds at most MaxStream events.
MaxStream == 3

(***************************************************************************)
(* capture/keymap.rs: key types and the keycode table.                     *)
(***************************************************************************)
Character(c) == [kind |-> "Character", val |-> c]
Special(s) == [kind |-> "Special", val |-> s]
Modifier(m) == [kind |-> "Modifier", val |-> m]
Unknown(code) == [kind |-> "Unknown", val |-> ToString(code)]

\* The keycodes the model types: a, b, Space and Left Shift.
Keycodes == {0, 11, 49, 56}

keycode_to_key(keycode) ==
    CASE keycode = 0 -> Character("a")
      [] keycode = 11 -> Character("b")
      [] keycode = 49 -> Special("Space")
      [] keycode = 56 -> Modifier("Shift")
      [] OTHER -> Unknown(keycode)

\* KeyType::name
to_lowercase(s) ==
    CASE s = "Space" -> "space"
      [] s = "Shift" -> "shift"
      [] OTHER -> s

KeyType_name(key_type) ==
    CASE key_type.kind = "Character" -> key_type.val
      [] key_type.kind = "Special" -> "special:" \o to_lowercase(key_type.val)
      [] key_type.kind = "Modifier" -> "modifier:" \o to_lowercase(key_type.val)
      [] OTHER -> "unknown:" \o key_type.val

\* KeyEvent::new (modifier flags play no part in the pipeline modelled here).
KeyEvent(code, ts) ==
    [keycode |-> code, key_type |-> keycode_to_key(code), timestamp |-> ts]

VARIABLES
    \* Tokenizer
    config,          \* TokenizerConfig: gap_threshold_ms, min_token_length
    buffer,          \* Vec<KeyEvent>
    last_timestamp,  \* Option<DateTime<Utc>>, in ticks
    tok_call,        \* the last call made on the tokenizer and the branch it took
    tok_ret,         \* what that call returned: Option<Token>
    \* SqliteStorage
    db,              \* the tables behind conn: processes, windows, keys, hourly_stats
    store_log,       \* the calls made on the store that returned Ok, in order
    store_errors,    \* how many calls on the store returned Err
    store_ret,       \* what the last call on the store returned
    query_ret,       \* the rows the last call returned, when it was a query
    \* LiveStats
    recent_events,      \* VecDeque<Instant>, in seconds of the monotonic clock
    window_duration,    \* Duration, in seconds
    total_keystrokes,   \* u64
    session_start,      \* Instant
    current_streak,     \* u32
    last_active_date,   \* Option<NaiveDate>, in days
    milestones_reached, \* Vec<Milestone>: the session's copy of MILESTONES
    mono_clock,         \* the latest reading of the monotonic clock (Instant::now)
    stats_calls,        \* how many times record() was called
    stats_ret,          \* what the last record() returned: Option<Milestone>
    unlock_log,         \* the milestones record() returned, with the call's number
    wall_clock,         \* the latest reading of the wall clock (Utc::now) in record()
    trailing_records,   \* history: the Instants of the record() calls made in the
                        \* KpsWindowSecs seconds up to the latest one
    kps_ret,            \* what the last kps() returned, and when it was called
    \* InstanceLock: the file system of one data directory and its contenders
    fs_path,         \* the directory entry kstrk.lock: Option<inode>
    inode_lock,      \* per inode, the process whose open file holds the flock
    inode_content,   \* per inode, the text of the file, a sequence of characters
    lk_pc,           \* per process, where it is in acquire / drop
    lk_fd,           \* per process, the inode its open File refers to
    lk_result,       \* per process, what its last acquire returned
    lk_contended,    \* per process, whether another process held an InstanceLock
                     \* when it last tried to lock
    \* Daemon::run_foreground: the capture thread and the consumer loop
    channel,         \* the mpsc channel: the events sent and not yet received
    running,         \* the AtomicBool the signal handler clears
    capture_state,   \* the capture thread: "unspawned", "spawned", "running" or "failed"
    consumer_pc,     \* the main thread in Daemon::start: "start", then the loop's
                     \* "check", "drain", "process", "sleep", then "stopped", "returned"
    daemon_ret,      \* what Daemon::start returns, once that is decided
    current_event,   \* the event try_recv returned, while process_event runs
    sent,            \* every event the capture thread sent, in order
    processed,       \* every event process_event has handled, in order
    \* A key-event stream fed to one Tokenizer (history)
    tok_input,       \* every event passed to process(), in order
    tok_emitted,     \* every Token process() and flush() returned, in order
    \* Daemon::is_running: the PID file and the status query
    pid_file,        \* /tmp/kstrk.pid: None when absent, else Some(text)
    is_running_ret   \* what the last Daemon::is_running() returned

tokVars == <<config, buffer, last_timestamp, tok_call, tok_ret>>
storeVars == <<db, store_log, store_errors, store_ret, query_ret>>
statsVars == <<recent_events, window_duration, total_keystrokes, session_start,
               current_streak, last_active_date, milestones_reached, mono_clock,
               stats_calls, stats_ret, unlock_log, wall_clock, trailing_records, kps_ret>>

lockVars == <<fs_path, inode_lock, inode_content, lk_pc, lk_fd, lk_result, lk_contended>>

daemonVars == <<channel, running, capture_state, consumer_pc, daemon_ret, current_event, sent,
               processed>>

streamVars == <<tok_input, tok_emitted>>
statusVars == <<pid_file, is_running_ret>>

vars == <<tokVars, streamVars, statusVars, storeVars, statsVars, lockVars, daemonVars>>

(***************************************************************************)
(* tokenize/mod.rs                                                         *)
(***************************************************************************)
\* TimeDelta::num_milliseconds: whole milliseconds, truncated toward zero.
NumMilliseconds(d) ==
    IF d >= 0 THEN d \div TicksPerMs ELSE -((-d) \div TicksPerMs)

\* Content with a match arm that turns the space key into a character.
RECURSIVE Content_WithSpace(_)
Content_WithSpace(buf) ==
    IF buf = <<>> THEN <<>>
    ELSE IF Head(buf).key_type.kind = "Character"
         THEN <<Head(buf).key_type.val>> \o Content_WithSpace(Tail(buf))
         ELSE IF Head(buf).key_type = Special("Space")
              THEN <<" ">> \o Content_WithSpace(Tail(buf))
              ELSE Content_WithSpace(Tail(buf))

\* The filter_map of flush: the characters of the Character events, in order.
RECURSIVE Content(_)
Content(buf) ==
    IF buf = <<>> THEN <<>>
    ELSE IF Head(buf).key_type.kind = "Character"
         THEN <<Head(buf).key_type.val>> \o Content(Tail(buf))
         ELSE Content(Tail(buf))

\* flush with the minimum-length test off by one (<= for <).
FlushToken_MinExclusive(buf, cfg) ==
    IF Len(buf) <= cfg.min_token_length THEN None
    ELSE IF Content(buf) = <<>> THEN None
    ELSE Some([content |-> Content(buf),
               started_at |-> buf[1].timestamp,
               ended_at |-> buf[Len(buf)].timestamp,
               key_count |-> Len(buf)])

\* flush without the minimum-length test.
FlushToken_NoMinCheck(buf, cfg) ==
    IF Content(buf) = <<>> THEN None
    ELSE Some([content |-> Content(buf),
               started_at |-> buf[1].timestamp,
               ended_at |-> buf[Len(buf)].timestamp,
               key_count |-> Len(buf)])

\* flush that stamps the token's end with the first event's timestamp.
FlushToken_EndsAtFirst(buf, cfg) ==
    IF Len(buf) < cfg.min_token_length THEN None
    ELSE IF Content(buf) = <<>> THEN None
    ELSE Some([content |-> Content(buf),
               started_at |-> buf[1].timestamp,
               ended_at |-> buf[1].timestamp,
               key_count |-> Len(buf)])

\* flush without the empty-content test.
FlushToken_NoContentCheck(buf, cfg) ==
    IF Len(buf) < cfg.min_token_length THEN None
    ELSE IF buf = <<>> THEN None
    ELSE Some([content |-> Content(buf),
               started_at |-> buf[1].timestamp,
               ended_at |-> buf[Len(buf)].timestamp,
               key_count |-> Len(buf)])

\* Tokenizer::flush, its return value; the buffer is cleared on every path.
FlushToken(buf, cfg) ==
    IF Len(buf) < cfg.min_token_length THEN None
    ELSE IF Content(buf) = <<>> THEN None
    ELSE Some([content |-> Content(buf),
               started_at |-> buf[1].timestamp,
               ended_at |-> buf[Len(buf)].timestamp,
               key_count |-> Len(buf)])

\* The time-gap test of Tokenizer::process.
GapExceeded(last, event, cfg) ==
    /\ IsSome(last)
    /\ NumMilliseconds(event.timestamp - Unwrap(last)) > cfg.gap_threshold_ms

IsSpace(event) == event.key_type = Special("Space")

\* The record kept of a call: the operation, its argument, the branch taken
\* and the key types that were buffered when it was made.
Call(op, event, branch) ==
    [op |-> op, event |-> event, branch |-> branch,
     before |-> [i \in 1..Len(buffer) |-> buffer[i].key_type]]

\* process that treats a space arriving after a gap as a boundary key: the
\* space is not pushed on the new buffer.
Process_GapDropsBoundary(event) ==
    /\ IF GapExceeded(last_timestamp, event, config)
       THEN /\ tok_ret' = FlushToken(buffer, config)
            /\ buffer' = IF IsSpace(event) THEN <<>> ELSE <<event>>
            /\ tok_call' = Call("process", Some(event), "gap")
       ELSE IF IsSpace(event)
       THEN /\ tok_ret' = FlushToken(buffer, config)
            /\ buffer' = <<>>
            /\ tok_call' = Call("process", Some(event), "space")
       ELSE /\ Len(buffer) < MaxBuf
            /\ tok_ret' = None
            /\ buffer' = Append(buffer, event)
            /\ tok_call' = Call("process", Some(event), "append")
    /\ last_timestamp' = Some(event.timestamp)
    /\ UNCHANGED config

\* process whose boundary-key branch leaves last_timestamp as it was.
Process_SpaceKeepsLast(event) ==
    /\ IF GapExceeded(last_timestamp, event, config)
       THEN /\ tok_ret' = FlushToken(buffer, config)
            /\ buffer' = <<event>>
            /\ tok_call' = Call("process", Some(event), "gap")
            /\ last_timestamp' = Some(event.timestamp)
       ELSE IF IsSpace(event)
       THEN /\ tok_ret' = FlushToken(buffer, config)
            /\ buffer' = <<>>
            /\ tok_call' = Call("process", Some(event), "space")
            /\ UNCHANGED last_timestamp
       ELSE /\ Len(buffer) < MaxBuf
            /\ tok_ret' = None
            /\ buffer' = Append(buffer, event)
            /\ tok_call' = Call("process", Some(event), "append")
            /\ last_timestamp' = Some(event.timestamp)
    /\ UNCHANGED config

\* process whose boundary-key branch flushes without clearing the buffer.
Process_SpaceKeepsBuffer(event) ==
    /\ IF GapExceeded(last_timestamp, event, config)
       THEN /\ tok_ret' = FlushToken(buffer, config)
            /\ buffer' = <<event>>
            /\ tok_call' = Call("process", Some(event), "gap")
       ELSE IF IsSpace(event)
       THEN /\ tok_ret' = FlushToken(buffer, config)
            /\ buffer' = buffer
            /\ tok_call' = Call("process", Some(event), "space")
       ELSE /\ Len(buffer) < MaxBuf
            /\ tok_ret' = None
            /\ buffer' = Append(buffer, event)
            /\ tok_call' = Call("process", Some(event), "append")
    /\ last_timestamp' = Some(event.timestamp)
    /\ UNCHANGED config

\* Tokenizer::process(event)
Process(event) ==
    /\ IF GapExceeded(last_timestamp, event, config)
       THEN /\ tok_ret' = FlushToken(buffer, config)
            /\ buffer' = <<event>>
            /\ tok_call' = Call("process", Some(event), "gap")
       ELSE IF IsSpace(event)
       THEN /\ tok_ret' = FlushToken(buffer, config)
            /\ buffer' = <<>>
            /\ tok_call' = Call("process", Some(event), "space")
       ELSE /\ Len(buffer) < MaxBuf
            /\ tok_ret' = None
            /\ buffer' = Append(buffer, event)
            /\ tok_call' = Call("process", Some(event), "append")
    /\ last_timestamp' = Some(event.timestamp)
    /\ UNCHANGED config

\* An explicit flush that also forgets the last timestamp.
Flush_ResetsLast ==
    /\ tok_ret' = FlushToken(buffer, config)
    /\ buffer' = <<>>
    /\ tok_call' = Call("flush", None, "flush")
    /\ last_timestamp' = None
    /\ UNCHANGED config

\* Tokenizer::flush() called by the owner (end-of-stream draining)
Flush ==
    /\ tok_ret' = FlushToken(buffer, config)
    /\ buffer' = <<>>
    /\ tok_call' = Call("flush", None, "flush")
    /\ UNCHANGED <<config, last_timestamp>>

\* The tokenizer as the other specifications hold it: new, default config.
InitTokIdle ==
    /\ config = [gap_threshold_ms |-> 500, min_token_length |-> 2]
    /\ buffer = <<>>
    /\ last_timestamp = None
    /\ tok_call = [op |-> "new", event |-> None, branch |-> "new", before |-> <<>>]
    /\ tok_ret = None
    /\ tok_input = <<>>
    /\ tok_emitted = <<>>

\* Tokenizer::new(config)
InitTok ==
    /\ config \in [gap_threshold_ms : {0, 1}, min_token_length : {1, 2}]
    /\ buffer = <<>>
    /\ last_timestamp = None
    /\ tok_call = [op |-> "new", event |-> None, branch |-> "new", before |-> <<>>]
    /\ tok_ret = None
    /\ tok_input = <<>>
    /\ tok_emitted = <<>>


(***************************************************************************)
(* storage/mod.rs                                                          *)
(***************************************************************************)
\* Result<T>
Ok(v) == [ok |-> TRUE, val |-> v]
Err == [ok |-> FALSE, val |-> 0]

Max(S) == CHOOSE x \in S : \A y \in S : y <= x

\* INTEGER PRIMARY KEY: a new row takes the largest rowid in use plus one.
NextRowId(table) == IF table = {} THEN 1 ELSE Max({r.id : r \in table}) + 1

\* init_schema on a new database: every table is created empty.
EmptyDb == [processes |-> {}, windows |-> {}, keys |-> {}, hourly_stats |-> {}]

\* A plain INSERT INTO processes: the row is added even when the name exists.
InsertOrIgnoreProcess_NoIgnore(d, name) ==
    [d EXCEPT !.processes = @ \cup {[id |-> NextRowId(@), name |-> name]}]

\* INSERT OR IGNORE INTO processes (name) VALUES (?1)
InsertOrIgnoreProcess(d, name) ==
    IF \E r \in d.processes : r.name = name THEN d
    ELSE [d EXCEPT !.processes = @ \cup {[id |-> NextRowId(@), name |-> name]}]

\* SELECT id FROM processes WHERE name = ?1
SelectProcessId(d, name) == (CHOOSE r \in d.processes : r.name = name).id

\* INSERT OR REPLACE INTO windows: a row with the same (process_id, title) is
\* deleted and a new row takes its place.
InsertOrIgnoreWindow_Replace(d, process_id, title) ==
    LET kept == {r \in d.windows : ~(r.process_id = process_id /\ r.title = title)}
    IN  [d EXCEPT !.windows =
            kept \cup {[id |-> NextRowId(@), process_id |-> process_id, title |-> title]}]

\* INSERT OR IGNORE INTO windows (process_id, title) VALUES (?1, ?2)
InsertOrIgnoreWindow(d, process_id, title) ==
    IF \E r \in d.windows : r.process_id = process_id /\ r.title = title THEN d
    ELSE [d EXCEPT !.windows =
            @ \cup {[id |-> NextRowId(@), process_id |-> process_id, title |-> title]}]

\* SELECT id FROM windows WHERE process_id = ?1 AND title = ?2
SelectWindowId(d, process_id, title) ==
    (CHOOSE r \in d.windows : r.process_id = process_id /\ r.title = title).id

\* INSERT INTO keys (window_id, key_count, started_at) VALUES (?1, ?2, ?3)
InsertKey(d, window_id, key_count) ==
    [d EXCEPT !.keys =
        @ \cup {[id |-> NextRowId(@), window_id |-> window_id, key_count |-> key_count]}]

\* SqliteStorage::record_keystroke. The five statements run in autocommit
\* mode; fail_at names the statement that returns an error (0: none), and the
\* statements before it have taken effect.
record_keystroke(d, process, window, key_count, fail_at) ==
    LET d1 == InsertOrIgnoreProcess(d, process)
        process_id == SelectProcessId(d1, process)
        d3 == InsertOrIgnoreWindow(d1, process_id, window)
        window_id == SelectWindowId(d3, process_id, window)
        d5 == InsertKey(d3, window_id, key_count)
    IN  CASE fail_at = 1 -> [db |-> d, ret |-> Err]
          [] fail_at = 2 -> [db |-> d1, ret |-> Err]
          [] fail_at = 3 -> [db |-> d1, ret |-> Err]
          [] fail_at = 4 -> [db |-> d3, ret |-> Err]
          [] fail_at = 5 -> [db |-> d3, ret |-> Err]
          [] OTHER -> [db |-> d5, ret |-> Ok(Max({r.id : r \in d5.keys}))]

\* SqliteStorage::get_total_keystrokes: SELECT COALESCE(SUM(key_count), 0) FROM keys
RECURSIVE SumKeyCount(_)
SumKeyCount(rows) ==
    IF rows = {} THEN 0
    ELSE LET r == CHOOSE x \in rows : TRUE
         IN  r.key_count + SumKeyCount(rows \ {r})

get_total_keystrokes(d) == SumKeyCount(d.keys)

\* record_hourly_stat whose conflict clause resets the row (DO UPDATE SET count = 1).
record_hourly_stat_Reset(d, hour_bucket, key_type, fails) ==
    IF fails THEN [db |-> d, ret |-> Err]
    ELSE [db |-> [d EXCEPT !.hourly_stats =
                    {r \in @ : ~(r.hour_bucket = hour_bucket /\ r.key_type = key_type)}
                    \cup {[id |-> NextRowId(@), hour_bucket |-> hour_bucket,
                            key_type |-> key_type, count |-> 1]}],
          ret |-> Ok(0)]

\* record_hourly_stat that also files the key in the keys table.
record_hourly_stat_AlsoInsertsKey(d, hour_bucket, key_type, fails) ==
    IF fails THEN [db |-> d, ret |-> Err]
    ELSE IF \E r \in d.hourly_stats : r.hour_bucket = hour_bucket /\ r.key_type = key_type
    THEN [db |-> InsertKey([d EXCEPT !.hourly_stats =
                    {IF r.hour_bucket = hour_bucket /\ r.key_type = key_type
                     THEN [r EXCEPT !.count = @ + 1] ELSE r : r \in @}], 0, 1),
          ret |-> Ok(0)]
    ELSE [db |-> InsertKey([d EXCEPT !.hourly_stats =
                    @ \cup {[id |-> NextRowId(@), hour_bucket |-> hour_bucket,
                             key_type |-> key_type, count |-> 1]}], 0, 1),
          ret |-> Ok(0)]

\* SqliteStorage::record_hourly_stat: INSERT ... ON CONFLICT(hour_bucket,
\* key_type) DO UPDATE SET count = count + 1
record_hourly_stat(d, hour_bucket, key_type, fails) ==
    IF fails THEN [db |-> d, ret |-> Err]
    ELSE IF \E r \in d.hourly_stats : r.hour_bucket = hour_bucket /\ r.key_type = key_type
    THEN [db |-> [d EXCEPT !.hourly_stats =
                    {IF r.hour_bucket = hour_bucket /\ r.key_type = key_type
                     THEN [r EXCEPT !.count = @ + 1] ELSE r : r \in @}],
          ret |-> Ok(0)]
    ELSE [db |-> [d EXCEPT !.hourly_stats =
                    @ \cup {[id |-> NextRowId(@), hour_bucket |-> hour_bucket,
                             key_type |-> key_type, count |-> 1]}],
          ret |-> Ok(0)]

\* The store's log: the call is appended when it returned Ok, and counted
\* under its operation's name otherwise.
LogAfter(log, entry, ret) == IF ret.ok THEN Append(log, entry) ELSE log
ErrorsAfter(errors, entry, ret) ==
    IF ret.ok THEN errors ELSE [errors EXCEPT ![entry.op] = @ + 1]

KeystrokeEntry(process, window, key_count) ==
    [op |-> "record_keystroke", process |-> process, window |-> window,
     key_count |-> key_count]
HourlyEntry(hour_bucket, key_type) ==
    [op |-> "record_hourly_stat", hour_bucket |-> hour_bucket, key_type |-> key_type]

Logged(entry, ret) ==
    /\ store_log' = LogAfter(store_log, entry, ret)
    /\ store_errors' = ErrorsAfter(store_errors, entry, ret)
    /\ store_ret' = ret
    /\ query_ret' = None

StoreOps ==
    Len(store_log) + store_errors["record_keystroke"] + store_errors["record_hourly_stat"]

\* A call of record_keystroke by the store's owner.
RecordKeystroke(process, window, key_count, fail_at) ==
    /\ StoreOps < MaxStoreOps
    /\ LET r == record_keystroke(db, process, window, key_count, fail_at)
       IN  /\ db' = r.db
           /\ Logged(KeystrokeEntry(process, window, key_count), r.ret)

\* A call of record_hourly_stat by the store's owner.
RecordHourlyStat(hour_bucket, key_type, fails) ==
    /\ StoreOps < MaxStoreOps
    /\ LET r == record_hourly_stat(db, hour_bucket, key_type, fails)
       IN  /\ db' = r.db
           /\ Logged(HourlyEntry(hour_bucket, key_type), r.ret)

\* SUM(key_count) over the keys rows of a group
KeysOfProcess(d, process_id) ==
    {k \in d.keys : \E w \in d.windows : w.id = k.window_id /\ w.process_id = process_id}
KeysOfWindow(d, window_id) == {k \in d.keys : k.window_id = window_id}

\* SUM(count) over the hourly_stats rows of a group
RECURSIVE SumCount(_)
SumCount(rows) ==
    IF rows = {} THEN 0
    ELSE LET r == CHOOSE x \in rows : TRUE
         IN  r.count + SumCount(rows \ {r})

\* ORDER BY total DESC over the groups, each [id, name, total]: every order
\* of the groups in which no total is followed by a greater one (SQL leaves
\* the order of equal totals open). The rows returned are (name, total).
RECURSIVE OrderByTotalDesc(_)
OrderByTotalDesc(groups) ==
    IF groups = {} THEN {<<>>}
    ELSE UNION {{<<[name |-> g.name, total |-> g.total]>> \o rest :
                    rest \in OrderByTotalDesc(groups \ {g})} :
                g \in {x \in groups : \A y \in groups : x.total >= y.total}}

\* get_keystrokes_by_process with GROUP BY w.id for GROUP BY p.id.
get_keystrokes_by_process_PerWindow(d) ==
    OrderByTotalDesc(
        {[id |-> w.id,
          name |-> (CHOOSE p \in d.processes : p.id = w.process_id).name,
          total |-> SumKeyCount(KeysOfWindow(d, w.id))] :
            w \in {w \in d.windows : KeysOfWindow(d, w.id) # {}
                                     /\ \E p \in d.processes : p.id = w.process_id}})

\* get_keystrokes_by_process selecting FROM processes with LEFT JOINs: a
\* process without keys rows is listed with total 0.
get_keystrokes_by_process_LeftJoin(d) ==
    OrderByTotalDesc(
        {[id |-> p.id, name |-> p.name, total |-> SumKeyCount(KeysOfProcess(d, p.id))] :
            p \in d.processes})

\* SqliteStorage::get_keystrokes_by_process: SELECT p.name, SUM(k.key_count)
\* FROM keys k JOIN windows w JOIN processes p GROUP BY p.id ORDER BY total
\* DESC. The set of the row sequences the query may return.
get_keystrokes_by_process(d) ==
    OrderByTotalDesc(
        {[id |-> p.id, name |-> p.name, total |-> SumKeyCount(KeysOfProcess(d, p.id))] :
            p \in {p \in d.processes : KeysOfProcess(d, p.id) # {}}})

\* get_heatmap_data without the GROUP BY: one row per hourly_stats row.
get_heatmap_data_Ungrouped(d) ==
    OrderByTotalDesc({[id |-> r.id, name |-> r.key_type, total |-> r.count] :
                         r \in d.hourly_stats})

\* SqliteStorage::get_heatmap_data: SELECT key_type, SUM(count) FROM
\* hourly_stats GROUP BY key_type ORDER BY total DESC. The set of the row
\* sequences the query may return.
get_heatmap_data(d) ==
    OrderByTotalDesc(
        {[id |-> k, name |-> k,
          total |-> SumCount({r \in d.hourly_stats : r.key_type = k})] :
            k \in {r.key_type : r \in d.hourly_stats}})

\* A call of get_keystrokes_by_process by the store's owner.
GetKeystrokesByProcess ==
    /\ \E rows \in get_keystrokes_by_process(db) :
          query_ret' = Some([op |-> "get_keystrokes_by_process", rows |-> rows])
    /\ UNCHANGED <<db, store_log, store_errors, store_ret>>

\* A call of get_heatmap_data by the store's owner.
GetHeatmapData ==
    /\ \E rows \in get_heatmap_data(db) :
          query_ret' = Some([op |-> "get_heatmap_data", rows |-> rows])
    /\ UNCHANGED <<db, store_log, store_errors, store_ret>>

\* SqliteStorage::in_memory / new on a fresh database
InitStore ==
    /\ db = EmptyDb
    /\ store_log = <<>>
    /\ store_errors = [op \in {"record_keystroke", "record_hourly_stat"} |-> 0]
    /\ store_ret = Ok(0)
    /\ query_ret = None

ProcessNames == {"VSCode", "Terminal"}
WindowTitles == {"main.rs", "zsh"}
KeyCounts == {1, 2}
HourBuckets == {0, 1}
KeyTypeNames == {"a", "special:space"}


(***************************************************************************)
(* stats/milestones.rs and stats/mod.rs                                    *)
(*                                                                         *)
(* Instants are whole seconds of the monotonic clock. Wall-clock readings  *)
(* (Utc::now) are in ticks like every DateTime<Utc>; the wall clock may be *)
(* set backwards, so a reading is an input with no relation to the one     *)
(* before it.                                                              *)
(***************************************************************************)
\* const MILESTONES (the emoji field is left out).
MILESTONES ==
    << [threshold |-> 1000, name |-> "First Thousand", reached_at |-> None],
       [threshold |-> 10000, name |-> "Ten Thousand Club", reached_at |-> None],
       [threshold |-> 100000, name |-> "Centurion", reached_at |-> None],
       [threshold |-> 1000000, name |-> "Millionaire", reached_at |-> None],
       [threshold |-> 10000000, name |-> "Legend", reached_at |-> None] >>

TicksPerDay == 86400 * 1000 * TicksPerMs

\* DateTime<Utc>::date_naive, as a day number.
date_naive(utc) == utc \div TicksPerDay

\* while front < cutoff: pop_front
\* A pruning that also evicts the entry exactly at the cutoff.
RECURSIVE Prune_EvictsAtCutoff(_, _)
Prune_EvictsAtCutoff(events, cutoff) ==
    IF events # <<>> /\ Head(events) <= cutoff THEN Prune_EvictsAtCutoff(Tail(events), cutoff)
    ELSE events

RECURSIVE Prune(_, _)
Prune(events, cutoff) ==
    IF events # <<>> /\ Head(events) < cutoff THEN Prune(Tail(events), cutoff)
    ELSE events

\* A streak update that also counts a second record on the same date.
StreakAfter_CountsSameDay(streak, last_date, today) ==
    IF IsSome(last_date)
    THEN LET days_diff == today - Unwrap(last_date)
         IN  IF days_diff = 1 \/ days_diff = 0 THEN streak + 1
             ELSE IF days_diff > 1 THEN 1
             ELSE streak
    ELSE 1

\* The streak update of record: the new current_streak.
StreakAfter(streak, last_date, today) ==
    IF IsSome(last_date)
    THEN IF today # Unwrap(last_date)
         THEN LET days_diff == today - Unwrap(last_date)
              IN  IF days_diff = 1 THEN streak + 1
                  ELSE IF days_diff > 1 THEN 1
                  ELSE streak
         ELSE streak
    ELSE 1

\* The find of record with the reached_at test left out.
FirstUnlockable_IgnoresReached(ms, total) ==
    LET hits == {i \in 1..Len(ms) : total >= ms[i].threshold}
    IN  IF hits = {} THEN 0 ELSE CHOOSE i \in hits : \A j \in hits : i <= j

\* The find of record with > for >=.
FirstUnlockable_StrictlyAbove(ms, total) ==
    LET hits == {i \in 1..Len(ms) : ms[i].reached_at = None /\ total > ms[i].threshold}
    IN  IF hits = {} THEN 0 ELSE CHOOSE i \in hits : \A j \in hits : i <= j

\* iter_mut().find(|m| m.reached_at.is_none() && total >= m.threshold): the
\* index of the first such milestone, 0 when there is none.
FirstUnlockable(ms, total) ==
    LET hits == {i \in 1..Len(ms) : ms[i].reached_at = None /\ total >= ms[i].threshold}
    IN  IF hits = {} THEN 0 ELSE CHOOSE i \in hits : \A j \in hits : i <= j

\* kps: Duration::from_secs(5) and the divisor 5.0
KpsWindowSecs == 5
KpsDivisor == 5

\* LiveStats::record. now is the reading of Instant::now(), utc_today and
\* utc_reached the two readings of Utc::now().
Record(now, utc_today, utc_reached) ==
    LET total == total_keystrokes + 1
        found == FirstUnlockable(milestones_reached, total)
        unlocked == [milestones_reached[found] EXCEPT !.reached_at = Some(utc_reached)]
    IN  /\ now >= mono_clock
        /\ mono_clock' = now
        /\ recent_events' = Prune(Append(recent_events, now), now - window_duration)
        /\ total_keystrokes' = total
        /\ current_streak' = StreakAfter(current_streak, last_active_date, date_naive(utc_today))
        /\ last_active_date' = Some(date_naive(utc_today))
        /\ stats_calls' = stats_calls + 1
        /\ wall_clock' = Some(utc_today)
        /\ trailing_records' = SelectSeq(Append(trailing_records, now),
                                         LAMBDA t : t >= now - KpsWindowSecs)
        /\ IF found = 0
           THEN /\ stats_ret' = None
                /\ UNCHANGED <<milestones_reached, unlock_log>>
           ELSE /\ milestones_reached' = [milestones_reached EXCEPT ![found] = unlocked]
                /\ stats_ret' = Some(unlocked)
                /\ unlock_log' = Append(unlock_log,
                                        [call |-> stats_calls + 1,
                                         threshold |-> unlocked.threshold])
        /\ UNCHANGED <<window_duration, session_start, kps_ret>>

\* latest_milestone with min_by_key for max_by_key.
LatestMilestone_Earliest(ms) ==
    LET reached == {i \in 1..Len(ms) : IsSome(ms[i].reached_at)}
        best == {i \in reached :
                    \A j \in reached : Unwrap(ms[j].reached_at) >= Unwrap(ms[i].reached_at)}
    IN  IF reached = {} THEN None
        ELSE Some(ms[CHOOSE i \in best : \A j \in best : i <= j])

\* LiveStats::latest_milestone: max_by_key(reached_at) over the reached
\* milestones; of several maximal elements max_by_key returns the last.
LatestMilestone(ms) ==
    LET reached == {i \in 1..Len(ms) : IsSome(ms[i].reached_at)}
        best == {i \in reached :
                    \A j \in reached : Unwrap(ms[j].reached_at) <= Unwrap(ms[i].reached_at)}
    IN  IF reached = {} THEN None
        ELSE Some(ms[CHOOSE i \in best : \A j \in best : j <= i])

\* LiveStats::new(window_secs), constructed when the monotonic clock reads start.
InitStats(window_secs, start) ==
    /\ recent_events = <<>>
    /\ window_duration = window_secs
    /\ total_keystrokes = 0
    /\ session_start = start
    /\ current_streak = 0
    /\ last_active_date = None
    /\ milestones_reached = MILESTONES
    /\ mono_clock = start
    /\ stats_calls = 0
    /\ stats_ret = None
    /\ unlock_log = <<>>
    /\ wall_clock = None
    /\ trailing_records = <<>>
    /\ kps_ret = None

\* StatsConfig::default: apm_window_secs
DefaultApmWindowSecs == 60

(***************************************************************************)
(* f64 arithmetic of LiveStats::apm. A positive finite f64 is               *)
(* [kind |-> "finite", m |-> M, e |-> e] with the value M * 2^(e - 52),     *)
(* where M is the MantissaBits-bit significand as an integer,               *)
(* 2^52 <= M < 2^53. Quotients are rounded to nearest, ties to even, as     *)
(* IEEE 754 division is. An integer too large for a machine word is the     *)
(* pair [hi, lo] with the value hi * LimbBase + lo.                         *)
(***************************************************************************)
MantissaBits == 53
LimbBase == 2^26

BigOf(n) == [hi |-> n \div LimbBase, lo |-> n % LimbBase]
BigLess(a, b) == a.hi < b.hi \/ (a.hi = b.hi /\ a.lo < b.lo)
\* a - b for a >= b
BigSub(a, b) ==
    IF a.lo >= b.lo THEN [hi |-> a.hi - b.hi, lo |-> a.lo - b.lo]
    ELSE [hi |-> a.hi - b.hi - 1, lo |-> a.lo + LimbBase - b.lo]
\* 2a + bit
BigDouble(a, bit) ==
    [hi |-> 2 * a.hi + ((2 * a.lo + bit) \div LimbBase), lo |-> (2 * a.lo + bit) % LimbBase]

\* 2^52, the least significand
MinMantissa == [hi |-> LimbBase, lo |-> 0]

FZero == [kind |-> "zero", m |-> BigOf(0), e |-> 0]
FInf == [kind |-> "inf", m |-> BigOf(0), e |-> 0]
FNaN == [kind |-> "nan", m |-> BigOf(0), e |-> 0]
Finite(m, e) == [kind |-> "finite", m |-> m, e |-> e]

\* The next f64 above a positive finite one.
NextUp(x) ==
    LET inc == BigSub(BigDouble(x.m, 1), x.m)
    IN  IF inc.hi = 2 * LimbBase THEN Finite(MinMantissa, x.e + 1) ELSE Finite(inc, x.e)

\* Rounding to nearest, ties to even: m is the truncated significand;
\* round_up when the discarded part is above half a unit, tie when it is half.
RoundNearestEven(m, e, round_up, tie) ==
    IF round_up \/ (tie /\ m.lo % 2 = 1) THEN NextUp(Finite(m, e)) ELSE Finite(m, e)

\* One step of binary long division by the machine integer b: the next
\* quotient bit of s.r / b is appended to s.q, and s.r becomes twice the
\* remainder; s.n counts the bits still to produce.
DivStep(s, b) ==
    IF s.r >= b THEN [r |-> 2 * (s.r - b), q |-> BigDouble(s.q, 1), n |-> s.n - 1]
    ELSE [r |-> 2 * s.r, q |-> BigDouble(s.q, 0), n |-> s.n - 1]

RECURSIVE QuotientBits(_, _)
QuotientBits(s, b) == IF s.n = 0 THEN s ELSE QuotientBits(DivStep(s, b), b)

\* a / b scaled by powers of two to b' <= a' < 2b': [a, b, e] with
\* a / b = (a' / b') * 2^e
RECURSIVE Normalize(_, _, _)
Normalize(a, b, e) ==
    IF a < b THEN Normalize(2 * a, b, e - 1)
    ELSE IF a >= 2 * b THEN Normalize(a, 2 * b, e + 1)
    ELSE [a |-> a, b |-> b, e |-> e]

\* (a as f64) / (b as f64) for machine integers a >= 0, b >= 0 that f64 holds
\* exactly
FDivInts(a, b) ==
    IF b = 0 THEN (IF a = 0 THEN FNaN ELSE FInf)
    ELSE IF a = 0 THEN FZero
    ELSE LET n == Normalize(a, b, 0)
             d == QuotientBits([r |-> n.a, q |-> BigOf(0), n |-> MantissaBits], n.b)
         IN  RoundNearestEven(d.q, n.e, d.r > n.b, d.r = n.b)

\* The same step for large integers.
BigDivStep(s, b) ==
    IF BigLess(s.r, b)
    THEN [r |-> BigDouble(s.r, 0), q |-> BigDouble(s.q, 0), n |-> s.n - 1]
    ELSE [r |-> BigDouble(BigSub(s.r, b), 0), q |-> BigDouble(s.q, 1), n |-> s.n - 1]

RECURSIVE BigQuotientBits(_, _)
BigQuotientBits(s, b) == IF s.n = 0 THEN s ELSE BigQuotientBits(BigDivStep(s, b), b)

\* s.r doubled until it is b or above, s.shifts counting the doublings
RECURSIVE ShiftToReach(_, _)
ShiftToReach(s, b) ==
    IF BigLess(s.r, b)
    THEN ShiftToReach([r |-> BigDouble(s.r, 0), shifts |-> s.shifts + 1], b)
    ELSE s

\* (a as f64) / x for a machine integer a >= 0 and an f64 x >= 0
FDivIntByFloat(a, x) ==
    IF x.kind = "nan" THEN FNaN
    ELSE IF x.kind = "zero" THEN (IF a = 0 THEN FNaN ELSE FInf)
    ELSE IF x.kind = "inf" \/ a = 0 THEN FZero
    ELSE LET s == ShiftToReach([r |-> BigOf(a), shifts |-> 0], x.m)
             d == BigQuotientBits([r |-> s.r, q |-> BigOf(0), n |-> MantissaBits], x.m)
         IN  RoundNearestEven(d.q, (MantissaBits - 1) - s.shifts - x.e,
                              BigLess(x.m, d.r), d.r = x.m)

SecsPerMinute == 60

\* An apm that divides by the window in seconds.
apm_PerSecond(events, window_secs) == FDivInts(Len(events), window_secs)

\* LiveStats::apm: count / (window_duration.as_secs_f64() / 60.0)
apm(events, window_secs) ==
    LET window_mins == FDivInts(window_secs, SecsPerMinute)
    IN  FDivIntByFloat(Len(events), window_mins)

\* LiveStats::kps, called when Instant::now() reads now:
\* filter(|t| t >= now - 5 s).count() as f64 / 5.0
kps(events, now) ==
    LET cutoff == now - KpsWindowSecs
        recent == Cardinality({i \in 1..Len(events) : events[i] >= cutoff})
    IN  FDivInts(recent, KpsDivisor)

Kps(now) ==
    /\ now >= mono_clock
    /\ mono_clock' = now
    /\ kps_ret' = Some([at |-> now, value |-> kps(recent_events, now)])
    /\ UNCHANGED <<recent_events, window_duration, total_keystrokes, session_start,
                   current_streak, last_active_date, milestones_reached, stats_calls,
                   stats_ret, unlock_log, wall_clock, trailing_records>>

(***************************************************************************)
(* daemon/lock.rs                                                          *)
(*                                                                         *)
(* acquire and drop are sequences of system calls (open, flock, ftruncate, *)
(* write, flock(UN), unlink, close); processes interleave between them.    *)
(* An inode lives while the directory entry or an open file refers to it.  *)
(***************************************************************************)
Procs == 1..NumProcs
Inodes == 1..(NumProcs + 1)

\* std::process::id() of each process: ids of two and more digits.
ProcessId(p) == 10 ^ p + p - 1

\* Display for u32: the decimal digits, most significant first.
DecimalDigits == <<"0", "1", "2", "3", "4", "5", "6", "7", "8", "9">>
RECURSIVE to_string(_)
to_string(n) ==
    IF n < 10 THEN <<DecimalDigits[n + 1]>>
    ELSE to_string(n \div 10) \o <<DecimalDigits[(n % 10) + 1]>>

\* writeln!(file_mut, "{}", std::process::id()) on the empty file
PidLine(pid) == to_string(pid) \o <<"\n">>

\* str::trim: leading and trailing white space removed.
Whitespace == {" ", "\n", "\t", "\r"}
RECURSIVE trim_start(_)
trim_start(text) ==
    IF text # <<>> /\ Head(text) \in Whitespace THEN trim_start(Tail(text)) ELSE text
RECURSIVE trim_end(_)
trim_end(text) ==
    IF text # <<>> /\ text[Len(text)] \in Whitespace
    THEN trim_end(SubSeq(text, 1, Len(text) - 1)) ELSE text
trim(text) == trim_end(trim_start(text))

\* str::parse::<u32>: an optional +, then one or more decimal digits whose
\* value is at most u32::MAX = 4294967295; anything else is an error (None
\* here). The value is compared in two halves of five digits, 42949 and 67295.
U32MaxHigh == 42949
U32MaxLow == 67295
HalfDigits == 5
DigitValue(c) == CHOOSE d \in 0..9 : DecimalDigits[d + 1] = c
RECURSIVE DigitsValue(_, _)
DigitsValue(text, acc) ==
    IF text = <<>> THEN acc
    ELSE DigitsValue(Tail(text), acc * 10 + DigitValue(Head(text)))
RECURSIVE SkipZeros(_)
SkipZeros(text) ==
    IF Len(text) > 1 /\ Head(text) = "0" THEN SkipZeros(Tail(text)) ELSE text
FitsU32(digits) ==
    LET high == DigitsValue(SubSeq(digits, 1, Len(digits) - HalfDigits), 0)
        low == DigitsValue(SubSeq(digits, Len(digits) - HalfDigits + 1, Len(digits)), 0)
    IN  \/ Len(digits) <= 2 * HalfDigits - 1
        \/ /\ Len(digits) = 2 * HalfDigits
           /\ (high < U32MaxHigh \/ (high = U32MaxHigh /\ low <= U32MaxLow))
parse_u32(text) ==
    LET unsigned == IF text # <<>> /\ Head(text) = "+" THEN Tail(text) ELSE text
        digits == SkipZeros(unsigned)
    IN  IF unsigned = <<>>
           \/ \E i \in 1..Len(unsigned) : \A d \in 1..10 : DecimalDigits[d] # unsigned[i]
        THEN None
        ELSE IF ~FitsU32(digits) THEN None
        ELSE Some(DigitsValue(digits, 0))

Holders == {p \in Procs : lk_pc[p] = "holding"}

\* An inode nothing refers to: the one a creating open takes.
FreeInodes == {i \in Inodes : fs_path # Some(i) /\ \A q \in Procs : lk_fd[q] # Some(i)}
NewInode == CHOOSE i \in FreeInodes : \A j \in FreeInodes : i <= j

\* acquire: OpenOptions::new().write(true).create(true).open(&path)
AcquireOpen(p) ==
    /\ lk_pc[p] = "idle"
    /\ IF IsSome(fs_path)
       THEN /\ lk_fd' = [lk_fd EXCEPT ![p] = fs_path]
            /\ UNCHANGED <<fs_path, inode_lock, inode_content>>
       ELSE /\ fs_path' = Some(NewInode)
            /\ lk_fd' = [lk_fd EXCEPT ![p] = Some(NewInode)]
            /\ inode_lock' = [inode_lock EXCEPT ![NewInode] = None]
            /\ inode_content' = [inode_content EXCEPT ![NewInode] = <<>>]
    /\ lk_pc' = [lk_pc EXCEPT ![p] = "opened"]
    /\ UNCHANGED <<lk_result, lk_contended>>

\* file.try_lock_exclusive(): flock(LOCK_EX | LOCK_NB) succeeds when no open
\* file holds a lock on the inode.
TryLockSucceeds(p) == inode_lock[Unwrap(lk_fd[p])] = None

\* acquire: match file.try_lock_exclusive()
AcquireTryLock(p) ==
    /\ lk_pc[p] = "opened"
    /\ IF TryLockSucceeds(p)
       THEN /\ inode_lock' = [inode_lock EXCEPT ![Unwrap(lk_fd[p])] = Some(p)]
            /\ lk_pc' = [lk_pc EXCEPT ![p] = "locked"]
       ELSE /\ lk_pc' = [lk_pc EXCEPT ![p] = "denied"]
            /\ UNCHANGED inode_lock
    /\ lk_contended' = [lk_contended EXCEPT ![p] = Holders \ {p} # {}]
    /\ UNCHANGED <<fs_path, inode_content, lk_fd, lk_result>>

\* acquire, Ok arm: file_mut.set_len(0)
AcquireSetLen(p) ==
    /\ lk_pc[p] = "locked"
    /\ inode_content' = [inode_content EXCEPT ![Unwrap(lk_fd[p])] = <<>>]
    /\ lk_pc' = [lk_pc EXCEPT ![p] = "truncated"]
    /\ UNCHANGED <<fs_path, inode_lock, lk_fd, lk_result, lk_contended>>

\* acquire, Ok arm: writeln!(file_mut, "{}", std::process::id()); Ok(Self)
AcquireWritePid(p) ==
    /\ lk_pc[p] = "truncated"
    /\ inode_content' = [inode_content EXCEPT ![Unwrap(lk_fd[p])] = PidLine(ProcessId(p))]
    /\ lk_pc' = [lk_pc EXCEPT ![p] = "holding"]
    /\ lk_result' = [lk_result EXCEPT ![p] = [kind |-> "Ok", pid |-> None]]
    /\ UNCHANGED <<fs_path, inode_lock, lk_fd, lk_contended>>

\* A failed acquire that tidies up: it removes the lock file before returning.
AcquireDenied_RemovesFile(p) ==
    /\ lk_pc[p] = "denied"
    /\ lk_result' = [lk_result EXCEPT ![p] =
                       [kind |-> "AlreadyRunning",
                        pid |-> IF IsSome(fs_path)
                                THEN parse_u32(trim(inode_content[Unwrap(fs_path)]))
                                ELSE None]]
    /\ lk_fd' = [lk_fd EXCEPT ![p] = None]
    /\ lk_pc' = [lk_pc EXCEPT ![p] = "idle"]
    /\ fs_path' = None
    /\ UNCHANGED <<inode_lock, inode_content, lk_contended>>

\* acquire, Err arm: read_to_string(&path).ok().and_then(|s| s.trim().parse().ok()),
\* Err(AlreadyRunning); the File is dropped (closed) on return.
AcquireDenied(p) ==
    /\ lk_pc[p] = "denied"
    /\ lk_result' = [lk_result EXCEPT ![p] =
                       [kind |-> "AlreadyRunning",
                        pid |-> IF IsSome(fs_path)
                                THEN parse_u32(trim(inode_content[Unwrap(fs_path)]))
                                ELSE None]]
    /\ lk_fd' = [lk_fd EXCEPT ![p] = None]
    /\ lk_pc' = [lk_pc EXCEPT ![p] = "idle"]
    /\ UNCHANGED <<fs_path, inode_lock, inode_content, lk_contended>>

\* drop: self.file.unlock()
DropUnlock(p) ==
    /\ lk_pc[p] = "holding"
    /\ inode_lock' = [inode_lock EXCEPT ![Unwrap(lk_fd[p])] = None]
    /\ lk_pc' = [lk_pc EXCEPT ![p] = "unlocked"]
    /\ UNCHANGED <<fs_path, inode_content, lk_fd, lk_result, lk_contended>>

\* A drop that closes the file and leaves the directory entry in place.
DropRemove_KeepsFile(p) ==
    /\ lk_pc[p] = "unlocked"
    /\ lk_fd' = [lk_fd EXCEPT ![p] = None]
    /\ lk_pc' = [lk_pc EXCEPT ![p] = "idle"]
    /\ lk_result' = [lk_result EXCEPT ![p] = [kind |-> "None", pid |-> None]]
    /\ UNCHANGED <<fs_path, inode_lock, inode_content, lk_contended>>

\* drop: std::fs::remove_file(&self.path), whatever inode the path names now;
\* then the File field is dropped (closed).
DropRemove(p) ==
    /\ lk_pc[p] = "unlocked"
    /\ fs_path' = None
    /\ lk_fd' = [lk_fd EXCEPT ![p] = None]
    /\ lk_pc' = [lk_pc EXCEPT ![p] = "idle"]
    /\ lk_result' = [lk_result EXCEPT ![p] = [kind |-> "None", pid |-> None]]
    /\ UNCHANGED <<inode_lock, inode_content, lk_contended>>

\* A data directory without a lock file, and no process in acquire.
InitLock ==
    /\ fs_path = None
    /\ inode_lock = [i \in Inodes |-> None]
    /\ inode_content = [i \in Inodes |-> <<>>]
    /\ lk_pc = [p \in Procs |-> "idle"]
    /\ lk_fd = [p \in Procs |-> None]
    /\ lk_result = [p \in Procs |-> [kind |-> "None", pid |-> None]]
    /\ lk_contended = [p \in Procs |-> FALSE]

\* A data directory whose lock file process q has locked and holds.
InitLockHeldBy(q) ==
    /\ fs_path = Some(1)
    /\ inode_lock = [i \in Inodes |-> IF i = 1 THEN Some(q) ELSE None]
    /\ inode_content = [i \in Inodes |-> IF i = 1 THEN PidLine(ProcessId(q)) ELSE <<>>]
    /\ lk_pc = [p \in Procs |-> IF p = q THEN "holding" ELSE "idle"]
    /\ lk_fd = [p \in Procs |-> IF p = q THEN Some(1) ELSE None]
    /\ lk_result = [p \in Procs |-> IF p = q THEN [kind |-> "Ok", pid |-> None]
                                    ELSE [kind |-> "None", pid |-> None]]
    /\ lk_contended = [p \in Procs |-> FALSE]

(***************************************************************************)
(* daemon/mod.rs and capture/event_tap.rs                                  *)
(*                                                                         *)
(* Daemon::start runs in the main thread of process DaemonProc: it takes   *)
(* the InstanceLock, builds the Daemon, spawns the capture thread and runs *)
(* the consumer loop; the lock is dropped when run_foreground returns.     *)
(***************************************************************************)
DaemonProc == 1
DaemonOk == [ok |-> TRUE, val |-> "()"]
DaemonError(kind) == [ok |-> FALSE, val |-> kind]
LoopPcs == {"check", "drain", "process", "sleep"}

\* Daemon::start: InstanceLock::acquire(&data_dir)?, system call by system call
StartAcquireOpen == consumer_pc = "start" /\ AcquireOpen(DaemonProc) /\ UNCHANGED daemonVars
StartAcquireTryLock == consumer_pc = "start" /\ AcquireTryLock(DaemonProc) /\ UNCHANGED daemonVars
StartAcquireSetLen == consumer_pc = "start" /\ AcquireSetLen(DaemonProc) /\ UNCHANGED daemonVars
StartAcquireWritePid == consumer_pc = "start" /\ AcquireWritePid(DaemonProc) /\ UNCHANGED daemonVars

\* Daemon::start: acquire returned Err(AlreadyRunning), which ? returns as
\* DaemonError::Lock
StartLockDenied ==
    /\ consumer_pc = "start"
    /\ AcquireDenied(DaemonProc)
    /\ consumer_pc' = "returned"
    /\ daemon_ret' = Some(DaemonError("Lock"))
    /\ UNCHANGED <<channel, running, capture_state, current_event, sent, processed>>

\* A set-up whose error path returns without dropping the lock.
RunForegroundSetup_LeaksOnError(new_ok, handler_ok) ==
    /\ consumer_pc = "start"
    /\ lk_pc[DaemonProc] = "holding"
    /\ IF new_ok /\ handler_ok
       THEN /\ consumer_pc' = "check"
            /\ capture_state' = "spawned"
            /\ UNCHANGED daemon_ret
       ELSE /\ consumer_pc' = "returned"
            /\ daemon_ret' = Some(DaemonError("Capture"))
            /\ UNCHANGED capture_state
    /\ UNCHANGED <<channel, running, current_event, sent, processed>>
    /\ UNCHANGED lockVars

\* run_foreground up to the loop: Daemon::new(config)?, ctrlc::set_handler(..)?,
\* mpsc::channel(), thread::spawn(start_capture). When Daemon::new or
\* set_handler fails the error is returned and the lock is dropped.
RunForegroundSetup(new_ok, handler_ok) ==
    /\ consumer_pc = "start"
    /\ lk_pc[DaemonProc] = "holding"
    /\ IF new_ok /\ handler_ok
       THEN /\ consumer_pc' = "check"
            /\ capture_state' = "spawned"
            /\ UNCHANGED daemon_ret
       ELSE /\ consumer_pc' = "stopped"
            /\ daemon_ret' = Some(DaemonError("Capture"))
            /\ UNCHANGED capture_state
    /\ UNCHANGED <<channel, running, current_event, sent, processed>>
    /\ UNCHANGED lockVars

TicksPerSecond == 1000 * TicksPerMs
SecondsPerHour == 3600

\* A timestamp read in milliseconds (timestamp_millis).
timestamp_Millis(utc) == utc \div TicksPerMs

\* DateTime<Utc>::timestamp: whole seconds since the epoch.
timestamp(utc) == utc \div TicksPerSecond

\* start_capture on macOS with the accessibility permission: the event tap is
\* installed and the thread stays in the run loop.
CaptureStarts ==
    /\ capture_state = "spawned"
    /\ capture_state' = "running"
    /\ UNCHANGED <<daemon_ret, channel, running, consumer_pc, current_event, sent, processed>>

\* start_capture returns Err (PlatformNotSupported, AccessibilityDenied, ...):
\* the thread ends and its Sender is dropped.
CaptureFails ==
    /\ capture_state = "spawned"
    /\ capture_state' = "failed"
    /\ UNCHANGED <<daemon_ret, channel, running, consumer_pc, current_event, sent, processed>>

\* The event tap callback: KeyEvent::new(keycode, Utc::now(), flags), tx.send.
\* The Receiver is dropped, and the process with its capture thread ends,
\* when the main loop has returned.
CaptureSend(keycode, utc) ==
    /\ capture_state = "running"
    /\ consumer_pc \in LoopPcs
    /\ Len(sent) < MaxSent
    /\ channel' = Append(channel, KeyEvent(keycode, utc))
    /\ sent' = Append(sent, KeyEvent(keycode, utc))
    /\ UNCHANGED <<daemon_ret, running, capture_state, consumer_pc, current_event, processed>>

\* The ctrlc handler: running.store(false)
SignalShutdown ==
    /\ consumer_pc \in LoopPcs
    /\ running
    /\ running' = FALSE
    /\ UNCHANGED <<daemon_ret, channel, capture_state, consumer_pc, current_event, sent, processed>>

\* while daemon.running.load(Ordering::SeqCst)
\* A loop head that does not look at the flag.
ConsumerCheck_IgnoresFlag ==
    /\ consumer_pc = "check"
    /\ consumer_pc' = "drain"
    /\ UNCHANGED <<daemon_ret, channel, running, capture_state, current_event, sent, processed>>

\* (when it is false: println!("Daemon stopped."); Ok(()))
ConsumerCheck ==
    /\ consumer_pc = "check"
    /\ IF running
       THEN consumer_pc' = "drain" /\ UNCHANGED daemon_ret
       ELSE consumer_pc' = "stopped" /\ daemon_ret' = Some(DaemonOk)
    /\ UNCHANGED <<channel, running, capture_state, current_event, sent, processed>>

\* A receive that hands out the newest queued event.
TryRecv_Newest(queue) ==
    [event |-> queue[Len(queue)], rest |-> SubSeq(queue, 1, Len(queue) - 1)]

\* rx.try_recv() on a non-empty channel: the oldest queued event.
TryRecv(queue) == [event |-> Head(queue), rest |-> Tail(queue)]

\* while let Ok(event) = rx.try_recv(): an event is taken
ConsumerRecv ==
    /\ consumer_pc = "drain"
    /\ channel # <<>>
    /\ current_event' = Some(TryRecv(channel).event)
    /\ channel' = TryRecv(channel).rest
    /\ consumer_pc' = "process"
    /\ UNCHANGED <<daemon_ret, running, capture_state, sent, processed>>

\* rx.try_recv() returns Err (Empty or Disconnected): the drain ends
ConsumerRecvEmpty ==
    /\ consumer_pc = "drain"
    /\ channel = <<>>
    /\ consumer_pc' = "sleep"
    /\ UNCHANGED <<daemon_ret, channel, running, capture_state, current_event, sent, processed>>

\* A process_event that gives up at the first failed store write.
process_event_StopsOnError(event, now, utc_today, utc_reached, fail_at, fails) ==
    LET r1 == record_keystroke(db, "Unknown", "Unknown", 1, fail_at)
        e1 == KeystrokeEntry("Unknown", "Unknown", 1)
        hour_bucket == timestamp(event.timestamp) \div SecondsPerHour
        r2 == record_hourly_stat(r1.db, hour_bucket, KeyType_name(event.key_type), fails)
        e2 == HourlyEntry(hour_bucket, KeyType_name(event.key_type))
    IN  /\ Record(now, utc_today, utc_reached)
        /\ IF r1.ret.ok
           THEN /\ db' = r2.db
                /\ store_log' = LogAfter(LogAfter(store_log, e1, r1.ret), e2, r2.ret)
                /\ store_errors' = ErrorsAfter(store_errors, e2, r2.ret)
                /\ store_ret' = r2.ret
                /\ query_ret' = None
           ELSE /\ db' = r1.db
                /\ store_log' = store_log
                /\ store_errors' = ErrorsAfter(store_errors, e1, r1.ret)
                /\ store_ret' = r1.ret
                /\ query_ret' = None

\* Daemon::process_event(event): stats.record(), then the two store writes,
\* whose errors are discarded (let _ =).
process_event(event, now, utc_today, utc_reached, fail_at, fails) ==
    LET r1 == record_keystroke(db, "Unknown", "Unknown", 1, fail_at)
        e1 == KeystrokeEntry("Unknown", "Unknown", 1)
        hour_bucket == timestamp(event.timestamp) \div SecondsPerHour
        r2 == record_hourly_stat(r1.db, hour_bucket, KeyType_name(event.key_type), fails)
        e2 == HourlyEntry(hour_bucket, KeyType_name(event.key_type))
    IN  /\ Record(now, utc_today, utc_reached)
        /\ db' = r2.db
        /\ store_log' = LogAfter(LogAfter(store_log, e1, r1.ret), e2, r2.ret)
        /\ store_errors' = ErrorsAfter(ErrorsAfter(store_errors, e1, r1.ret), e2, r2.ret)
        /\ store_ret' = r2.ret
        /\ query_ret' = None

\* A drain that looks at the flag after every event and leaves the loop when
\* it is false.
ConsumerProcess_ChecksFlag(now, utc_today, utc_reached, fail_at, fails) ==
    /\ consumer_pc = "process"
    /\ process_event(Unwrap(current_event), now, utc_today, utc_reached, fail_at, fails)
    /\ processed' = Append(processed, Unwrap(current_event))
    /\ current_event' = None
    /\ IF running
       THEN consumer_pc' = "drain" /\ UNCHANGED daemon_ret
       ELSE consumer_pc' = "stopped" /\ daemon_ret' = Some(DaemonOk)
    /\ UNCHANGED <<channel, running, capture_state, sent>>

\* daemon.process_event(event) in the drain loop
ConsumerProcess(now, utc_today, utc_reached, fail_at, fails) ==
    /\ consumer_pc = "process"
    /\ process_event(Unwrap(current_event), now, utc_today, utc_reached, fail_at, fails)
    /\ processed' = Append(processed, Unwrap(current_event))
    /\ current_event' = None
    /\ consumer_pc' = "drain"
    /\ UNCHANGED <<daemon_ret, channel, running, capture_state, sent>>

\* std::thread::sleep(Duration::from_millis(10)) is over
ConsumerWake ==
    /\ consumer_pc = "sleep"
    /\ consumer_pc' = "check"
    /\ UNCHANGED <<daemon_ret, channel, running, capture_state, current_event, sent, processed>>

\* run_foreground returns: _lock goes out of scope, Drop unlocks the file
ReturnDropUnlock == consumer_pc = "stopped" /\ DropUnlock(DaemonProc) /\ UNCHANGED daemonVars

\* Drop removes the file, and Daemon::start has returned
ReturnDropRemove ==
    /\ consumer_pc = "stopped"
    /\ DropRemove(DaemonProc)
    /\ consumer_pc' = "returned"
    /\ UNCHANGED <<channel, running, capture_state, daemon_ret, current_event, sent, processed>>

\* Daemon::start is called.
InitDaemon ==
    /\ channel = <<>>
    /\ running = TRUE
    /\ capture_state = "unspawned"
    /\ consumer_pc = "start"
    /\ daemon_ret = None
    /\ current_event = None
    /\ sent = <<>>
    /\ processed = <<>>

\* No file /tmp/kstrk.pid, and Daemon::is_running not called yet.
InitStatus ==
    /\ pid_file = None
    /\ is_running_ret = None

\* The processes that exist: the daemon's from Daemon::start until start
\* has returned, and every other process that is using the lock file.
LiveProcesses ==
    {ProcessId(p) : p \in {q \in Procs : IF q = DaemonProc THEN consumer_pc # "returned"
                                          ELSE lk_pc[q] # "idle"}}

\* libc::kill(pid as i32, 0) == 0: signal 0 is delivered to nobody and tests
\* that the target exists; pid 0 names the caller's own process group.
kill(pid) == pid = 0 \/ pid \in LiveProcesses

\* Daemon::read_pid: read_to_string(PID_FILE)?.trim().parse()
read_pid == parse_u32(trim(Unwrap(pid_file)))

\* Daemon::is_running
is_running ==
    IF pid_file = None THEN FALSE
    ELSE IF IsSome(read_pid) THEN kill(Unwrap(read_pid))
    ELSE FALSE

\* Client::is_running(), called by the status or stop command of another
\* kstrk process: the answer is kept with the point the daemon was at.
IsRunning ==
    /\ is_running_ret' = Some([val |-> is_running, at |-> consumer_pc])
    /\ UNCHANGED pid_file

(***************************************************************************)
(* Specifications: one per component. Each drives one component with every *)
(* input of its bounded input sets and leaves the others as constructed.   *)
(***************************************************************************)
\* The Tokenizer under any stream of key events and explicit flushes.
TokProcessStep ==
    /\ \E k \in Keycodes, t \in 0..MaxTick : Process(KeyEvent(k, t))
    /\ UNCHANGED <<streamVars, statusVars, storeVars, statsVars, lockVars, daemonVars>>

TokFlushStep == Flush /\ UNCHANGED <<streamVars, statusVars, storeVars, statsVars, lockVars, daemonVars>>

NextTok == TokProcessStep \/ TokFlushStep

InitTokSpec == InitTok /\ InitStore /\ InitStats(DefaultApmWindowSecs, 0) /\ InitLock /\ InitDaemon /\ InitStatus

SpecTok == InitTokSpec /\ [][NextTok]_vars

\* One Tokenizer fed a stream of key events by its owner, who keeps every
\* event passed in and every Token handed back, and flushes at any time
\* (the last flush drains the end of the stream).
StreamTicks == {0, MaxTick}
Emitted(ret) == IF IsSome(ret) THEN Append(tok_emitted, Unwrap(ret)) ELSE tok_emitted

StreamProcessStep ==
    /\ Len(tok_input) < MaxStream
    /\ \E k \in Keycodes, t \in StreamTicks :
          /\ Process(KeyEvent(k, t))
          /\ tok_input' = Append(tok_input, KeyEvent(k, t))
    /\ tok_emitted' = Emitted(tok_ret')
    /\ UNCHANGED <<statusVars, storeVars, statsVars, lockVars, daemonVars>>

StreamFlushStep ==
    /\ Flush
    /\ tok_emitted' = Emitted(tok_ret')
    /\ UNCHANGED <<tok_input, statusVars, storeVars, statsVars, lockVars, daemonVars>>

NextTokStream == StreamProcessStep \/ StreamFlushStep

InitTokStreamSpec == InitTok /\ InitStore /\ InitStats(DefaultApmWindowSecs, 0) /\ InitLock /\ InitDaemon /\ InitStatus

SpecTokStream == InitTokStreamSpec /\ [][NextTokStream]_vars

\* The aggregation store under any sequence of calls, failing or not.
StoreKeystrokeStep ==
    /\ \E p \in ProcessNames, w \in WindowTitles, n \in KeyCounts, f \in 0..5 :
          RecordKeystroke(p, w, n, f)
    /\ UNCHANGED <<tokVars, streamVars, statusVars, statsVars, lockVars, daemonVars>>

StoreHourlyStep ==
    /\ \E h \in HourBuckets, k \in KeyTypeNames, f \in BOOLEAN :
          RecordHourlyStat(h, k, f)
    /\ UNCHANGED <<tokVars, streamVars, statusVars, statsVars, lockVars, daemonVars>>

StoreByProcessStep ==
    GetKeystrokesByProcess /\ UNCHANGED <<tokVars, streamVars, statusVars, statsVars, lockVars, daemonVars>>

StoreHeatmapStep ==
    GetHeatmapData /\ UNCHANGED <<tokVars, streamVars, statusVars, statsVars, lockVars, daemonVars>>

NextStore ==
    \/ StoreKeystrokeStep
    \/ StoreHourlyStep
    \/ StoreByProcessStep
    \/ StoreHeatmapStep

InitStoreSpec == InitTokIdle /\ InitStore /\ InitStats(DefaultApmWindowSecs, 0) /\ InitLock /\ InitDaemon /\ InitStatus

SpecStore == InitStoreSpec /\ [][NextStore]_vars

\* A LiveStats session with the default window, typed slowly: each keystroke
\* comes more than a window after the one before, read off a wall clock that
\* moves either way within one day. The session is long enough to pass the
\* first two milestones.
MilestoneWallTimes == {0, 1}

MilestoneRecordStep ==
    /\ total_keystrokes < MaxTotal
    /\ \E utc_today \in MilestoneWallTimes, utc_reached \in MilestoneWallTimes :
          Record(mono_clock + window_duration + 1, utc_today, utc_reached)
    /\ UNCHANGED <<tokVars, streamVars, statusVars, storeVars, lockVars, daemonVars>>

NextMilestones == MilestoneRecordStep

InitMilestonesSpec == InitTokIdle /\ InitStore /\ InitStats(DefaultApmWindowSecs, 0) /\ InitLock /\ InitDaemon /\ InitStatus

SpecMilestones == InitMilestonesSpec /\ [][NextMilestones]_vars

\* The processes of Procs acquiring and dropping the instance lock of one
\* data directory, interleaved at every system call.
LockOpenStep == (\E p \in Procs : AcquireOpen(p)) /\ UNCHANGED <<tokVars, streamVars, statusVars, storeVars, statsVars, daemonVars>>
LockTryLockStep == (\E p \in Procs : AcquireTryLock(p)) /\ UNCHANGED <<tokVars, streamVars, statusVars, storeVars, statsVars, daemonVars>>
LockSetLenStep == (\E p \in Procs : AcquireSetLen(p)) /\ UNCHANGED <<tokVars, streamVars, statusVars, storeVars, statsVars, daemonVars>>
LockWritePidStep == (\E p \in Procs : AcquireWritePid(p)) /\ UNCHANGED <<tokVars, streamVars, statusVars, storeVars, statsVars, daemonVars>>
LockDeniedStep == (\E p \in Procs : AcquireDenied(p)) /\ UNCHANGED <<tokVars, streamVars, statusVars, storeVars, statsVars, daemonVars>>
LockUnlockStep == (\E p \in Procs : DropUnlock(p)) /\ UNCHANGED <<tokVars, streamVars, statusVars, storeVars, statsVars, daemonVars>>
LockRemoveStep == (\E p \in Procs : DropRemove(p)) /\ UNCHANGED <<tokVars, streamVars, statusVars, storeVars, statsVars, daemonVars>>

NextLock ==
    \/ LockOpenStep
    \/ LockTryLockStep
    \/ LockSetLenStep
    \/ LockWritePidStep
    \/ LockDeniedStep
    \/ LockUnlockStep
    \/ LockRemoveStep

InitLockSpec == InitTokIdle /\ InitStore /\ InitStats(DefaultApmWindowSecs, 0) /\ InitLock /\ InitDaemon /\ InitStatus

SpecLock == InitLockSpec /\ [][NextLock]_vars

\* The rolling window: a LiveStats of some window length, and record called
\* as the monotonic clock advances by nothing, by a second, or by more.
StatsWindows == {0, 1, 2, 11}
ClockAdvances == {0, 1, 2, 3}

StatsRecordStep ==
    /\ stats_calls < MaxStatsCalls
    /\ \E advance \in ClockAdvances :
          /\ mono_clock + advance <= MaxClock
          /\ Record(mono_clock + advance, 0, 0)
    /\ UNCHANGED <<tokVars, streamVars, statusVars, storeVars, lockVars, daemonVars>>

NextStats == StatsRecordStep

InitStatsSpec ==
    /\ InitTokIdle /\ InitStore /\ InitLock /\ InitDaemon /\ InitStatus
    /\ \E window_secs \in StatsWindows : InitStats(window_secs, 0)

SpecStats == InitStatsSpec /\ [][NextStats]_vars

\* The daemon: the capture thread sends up to MaxSent events, stamped around
\* an hour boundary, while the consumer loop runs and the shutdown signal may
\* arrive at any moment; each store write may fail.
\* The streak: record called as the monotonic clock advances or not, each call
\* reading a wall clock that shows the first or the last instant of any day,
\* in any order (the wall clock can be set back).
StreakWallTimes == {d * TicksPerDay + o : d \in 0..MaxDay, o \in {0, TicksPerDay - 1}}

StreakRecordStep ==
    /\ stats_calls < MaxStatsCalls
    /\ \E advance \in {0, 1}, utc \in StreakWallTimes :
          /\ mono_clock + advance <= MaxClock
          /\ Record(mono_clock + advance, utc, utc)
    /\ UNCHANGED <<tokVars, streamVars, statusVars, storeVars, lockVars, daemonVars>>

NextStreak == StreakRecordStep

InitStreakSpec == InitTokIdle /\ InitStore /\ InitStats(DefaultApmWindowSecs, 0) /\ InitLock /\ InitDaemon /\ InitStatus

SpecStreak == InitStreakSpec /\ [][NextStreak]_vars

\* kps() under windows shorter than, equal to and longer than its five
\* seconds: record and kps called as the monotonic clock advances.
KpsWindows == {2, 5, 60}
KpsAdvances == {0, 1, 3, 6}

KpsRecordStep ==
    /\ stats_calls < MaxStatsCalls
    /\ \E advance \in KpsAdvances :
          /\ mono_clock + advance <= MaxKpsClock
          /\ Record(mono_clock + advance, 0, 0)
    /\ UNCHANGED <<tokVars, streamVars, statusVars, storeVars, lockVars, daemonVars>>

KpsQueryStep ==
    /\ \E advance \in KpsAdvances :
          /\ mono_clock + advance <= MaxKpsClock
          /\ Kps(mono_clock + advance)
    /\ UNCHANGED <<tokVars, streamVars, statusVars, storeVars, lockVars, daemonVars>>

NextKps == KpsRecordStep \/ KpsQueryStep

InitKpsSpec ==
    /\ InitTokIdle /\ InitStore /\ InitLock /\ InitDaemon /\ InitStatus
    /\ \E window_secs \in KpsWindows : InitStats(window_secs, 0)

SpecKps == InitKpsSpec /\ [][NextKps]_vars

HourTicks == SecondsPerHour * TicksPerSecond
DaemonTimestamps == {HourTicks - 1, HourTicks}
DaemonKeycodes == {0, 49}

OtherDaemon == 2

DaemonAcquireOpenStep == StartAcquireOpen /\ UNCHANGED <<tokVars, streamVars, statusVars, storeVars, statsVars>>
DaemonAcquireTryLockStep == StartAcquireTryLock /\ UNCHANGED <<tokVars, streamVars, statusVars, storeVars, statsVars>>
DaemonAcquireSetLenStep == StartAcquireSetLen /\ UNCHANGED <<tokVars, streamVars, statusVars, storeVars, statsVars>>
DaemonAcquireWritePidStep == StartAcquireWritePid /\ UNCHANGED <<tokVars, streamVars, statusVars, storeVars, statsVars>>
DaemonLockDeniedStep == StartLockDenied /\ UNCHANGED <<tokVars, streamVars, statusVars, storeVars, statsVars>>
DaemonSetupStep ==
    /\ \E new_ok \in BOOLEAN, handler_ok \in BOOLEAN : RunForegroundSetup(new_ok, handler_ok)
    /\ UNCHANGED <<tokVars, streamVars, statusVars, storeVars, statsVars>>
DaemonCaptureStartsStep == CaptureStarts /\ UNCHANGED <<tokVars, streamVars, statusVars, storeVars, statsVars, lockVars>>
DaemonCaptureFailsStep == CaptureFails /\ UNCHANGED <<tokVars, streamVars, statusVars, storeVars, statsVars, lockVars>>
DaemonSendStep ==
    /\ \E k \in DaemonKeycodes, t \in DaemonTimestamps : CaptureSend(k, t)
    /\ UNCHANGED <<tokVars, streamVars, statusVars, storeVars, statsVars, lockVars>>
DaemonSignalStep == SignalShutdown /\ UNCHANGED <<tokVars, streamVars, statusVars, storeVars, statsVars, lockVars>>
DaemonCheckStep == ConsumerCheck /\ UNCHANGED <<tokVars, streamVars, statusVars, storeVars, statsVars, lockVars>>
DaemonRecvStep == ConsumerRecv /\ UNCHANGED <<tokVars, streamVars, statusVars, storeVars, statsVars, lockVars>>
DaemonRecvEmptyStep == ConsumerRecvEmpty /\ UNCHANGED <<tokVars, streamVars, statusVars, storeVars, statsVars, lockVars>>
DaemonProcessStep ==
    /\ \E fail_at \in {0, 5}, fails \in BOOLEAN :
          ConsumerProcess(mono_clock, HourTicks, HourTicks, fail_at, fails)
    /\ UNCHANGED <<tokVars, streamVars, statusVars, lockVars>>
DaemonWakeStep == ConsumerWake /\ UNCHANGED <<tokVars, streamVars, statusVars, storeVars, statsVars, lockVars>>
DaemonDropUnlockStep == ReturnDropUnlock /\ UNCHANGED <<tokVars, streamVars, statusVars, storeVars, statsVars>>
DaemonDropRemoveStep == ReturnDropRemove /\ UNCHANGED <<tokVars, streamVars, statusVars, storeVars, statsVars>>

\* The steps of the main thread.
NextMainThread ==
    \/ DaemonAcquireOpenStep
    \/ DaemonAcquireTryLockStep
    \/ DaemonAcquireSetLenStep
    \/ DaemonAcquireWritePidStep
    \/ DaemonLockDeniedStep
    \/ DaemonSetupStep
    \/ DaemonCheckStep
    \/ DaemonRecvStep
    \/ DaemonRecvEmptyStep
    \/ DaemonProcessStep
    \/ DaemonWakeStep
    \/ DaemonDropUnlockStep
    \/ DaemonDropRemoveStep

NextDaemon ==
    \/ NextMainThread
    \/ DaemonCaptureStartsStep
    \/ DaemonCaptureFailsStep
    \/ DaemonSendStep
    \/ DaemonSignalStep

\* The data directory is free, or another kstrk daemon holds its lock.
InitDaemonSpec ==
    /\ InitTokIdle /\ InitStore /\ InitStats(DefaultApmWindowSecs, 0)
    /\ (InitLock \/ InitLockHeldBy(OtherDaemon))
    /\ InitDaemon /\ InitStatus

SpecDaemon == InitDaemonSpec /\ [][NextDaemon]_vars

\* The main thread is scheduled: a step it can take is eventually taken. Nothing
\* is assumed of the capture thread or of the signal.
SpecDaemonFair == SpecDaemon /\ WF_vars(NextMainThread)

\* Daemon::start on a free data directory, with the status and stop commands
\* asking is_running() at any time. No code of the repository writes
\* PID_FILE; the file is absent, or was left in /tmp with the daemon's pid or
\* with other text.
PidFiles == {None, Some(PidLine(ProcessId(DaemonProc))), Some(<<"x", "\n">>)}

StatusQueryStep ==
    /\ IsRunning
    /\ UNCHANGED <<tokVars, streamVars, storeVars, statsVars, lockVars, daemonVars>>

NextStatus ==
    \/ DaemonAcquireOpenStep
    \/ DaemonAcquireTryLockStep
    \/ DaemonAcquireSetLenStep
    \/ DaemonAcquireWritePidStep
    \/ DaemonSetupStep
    \/ DaemonCaptureStartsStep
    \/ DaemonCheckStep
    \/ DaemonRecvEmptyStep
    \/ DaemonWakeStep
    \/ DaemonSignalStep
    \/ DaemonDropUnlockStep
    \/ DaemonDropRemoveStep
    \/ StatusQueryStep

InitStatusSpec ==
    /\ InitTokIdle /\ InitStore /\ InitStats(DefaultApmWindowSecs, 0)
    /\ InitLock /\ InitDaemon
    /\ pid_file \in PidFiles
    /\ is_running_ret = None

SpecStatus == InitStatusSpec /\ [][NextStatus]_vars


(***************************************************************************)
(* Properties of the Tokenizer (checked under SpecTok).                    *)
(***************************************************************************)
\* The argument of the call a step makes, and the true time since the
\* previous event, in ticks.
Arg == Unwrap(tok_call'.event)
IsProcessStep == tok_call'.op = "process"
TrueGapExceeded ==
    /\ IsSome(last_timestamp)
    /\ Arg.timestamp - Unwrap(last_timestamp) > config.gap_threshold_ms * TicksPerMs
AllCharacters(buf) == \A i \in 1..Len(buf) : buf[i].key_type.kind = "Character"
Chars(buf) == [i \in 1..Len(buf) |-> buf[i].key_type.val]
NumCharacters(types) == Cardinality({i \in 1..Len(types) : types[i].kind = "Character"})

\* C1: whenever a previous event exists and the time from it to e is greater
\* than gap_threshold, at any resolution, process(e) flushes the prior buffer
\* first: a returned Token is built from the events buffered before e only,
\* and afterwards the buffer holds exactly e.
C1_GapAlwaysFlushes ==
    [][(IsProcessStep /\ TrueGapExceeded) =>
          /\ buffer' = <<Arg>>
          /\ IsSome(tok_ret') =>
                /\ Unwrap(tok_ret').content = Content(buffer)
                /\ Unwrap(tok_ret').key_count = Len(buffer)]_vars

\* C2: a run of n >= min_token_length Character events with no gap above the
\* threshold, followed by a space within the threshold: the call for the
\* space returns a Token whose content is the n characters in input order and
\* whose key_count is n, and leaves the buffer empty.
C2_SpaceEmitsWord ==
    [][(/\ IsProcessStep
        /\ IsSpace(Arg)
        /\ ~TrueGapExceeded
        /\ buffer # <<>>
        /\ Len(buffer) >= config.min_token_length
        /\ AllCharacters(buffer)) =>
          /\ IsSome(tok_ret')
          /\ Unwrap(tok_ret').content = Chars(buffer)
          /\ Unwrap(tok_ret').key_count = Len(buffer)
          /\ buffer' = <<>>]_vars

C2_Witness ==
    /\ tok_call.branch = "space"
    /\ IsSome(tok_ret)
    /\ Unwrap(tok_ret).content = <<"a", "b">>
    /\ Unwrap(tok_ret).key_count = 2
    /\ buffer = <<>>

\* C3: a flush (gap-triggered, boundary-key-triggered or explicit) of a buffer
\* shorter than min_token_length produces no Token and drops the buffered
\* events; a process call with no gap above the threshold and no boundary key
\* never returns a Token.
C3_ShortBufferNoToken ==
    [][/\ (tok_call'.branch \in {"gap", "space", "flush"}
             /\ Len(buffer) < config.min_token_length) =>
            /\ tok_ret' = None
            /\ buffer' = IF tok_call'.branch = "gap" THEN <<Arg>> ELSE <<>>
       /\ (IsProcessStep /\ ~IsSpace(Arg) /\ ~TrueGapExceeded) =>
            tok_ret' = None]_vars

C3_Witness ==
    /\ tok_call.branch \in {"gap", "space", "flush"}
    /\ Len(tok_call.before) = 1
    /\ tok_call.before[1].kind = "Character"
    /\ config.min_token_length = 2
    /\ tok_ret = None

\* C4: the content of an emitted Token holds no character that comes from the
\* space key: it has exactly as many characters as there were Character events
\* in the buffer, none of them a space, even when a space event was buffered.
C4_NoSpaceInContent ==
    IsSome(tok_ret) =>
        /\ \A i \in 1..Len(Unwrap(tok_ret).content) : Unwrap(tok_ret).content[i] # " "
        /\ Len(Unwrap(tok_ret).content) = NumCharacters(tok_call.before)

C4_Witness ==
    /\ IsSome(tok_ret)
    /\ \E i \in 1..Len(tok_call.before) : tok_call.before[i] = Special("Space")

\* The branches of the tokenizer that flush, and what the buffer holds when
\* such a call returns: the gap branch pushes its event after the flush.
FlushingBranches == {"gap", "space", "flush"}
BufferAfterFlush == IF tok_call'.branch = "gap" THEN <<Arg>> ELSE <<>>
CharactersOf(buf) ==
    LET cs == SelectSeq(buf, LAMBDA e : e.key_type.kind = "Character")
    IN  [i \in 1..Len(cs) |-> cs[i].key_type.val]

\* C21: an explicit flush() on an empty buffer returns nothing and leaves the
\* buffer and the last timestamp unchanged; of two flush() calls in a row the
\* second returns nothing.
C21_FlushIdempotent ==
    [][tok_call'.op = "flush" =>
          /\ buffer = <<>> =>
                (tok_ret' = None /\ buffer' = buffer /\ last_timestamp' = last_timestamp)
          /\ tok_call.op = "flush" =>
                (tok_ret' = None /\ buffer' = buffer /\ last_timestamp' = last_timestamp)]_vars

C21_Witness ==
    /\ tok_call.op = "flush"
    /\ tok_call.before = <<>>
    /\ IsSome(last_timestamp)
    /\ buffer = <<>>
    /\ tok_ret = None

\* C22: when a flush succeeds, the Token's content is the characters of the
\* buffered Character events in buffer order, its key_count is the length of
\* the whole buffer, its started_at and ended_at are the timestamps of the
\* first and the last buffered event, and the flush leaves the buffer empty
\* (the gap branch then pushes its event).
C22_TokenFromBuffer ==
    [][(tok_call'.branch \in FlushingBranches /\ IsSome(tok_ret')) =>
          /\ Unwrap(tok_ret').content = CharactersOf(buffer)
          /\ Unwrap(tok_ret').key_count = Len(buffer)
          /\ Unwrap(tok_ret').started_at = buffer[1].timestamp
          /\ Unwrap(tok_ret').ended_at = buffer[Len(buffer)].timestamp
          /\ buffer' = BufferAfterFlush]_vars

C22_Witness ==
    /\ IsSome(tok_ret)
    /\ Unwrap(tok_ret).key_count = 3
    /\ Len(Unwrap(tok_ret).content) = 2
    /\ Unwrap(tok_ret).started_at # Unwrap(tok_ret).ended_at
    /\ tok_call.before[2] = Modifier("Shift")
    /\ buffer = <<>>

\* C23: when the event that triggers a gap flush is the space key, it becomes
\* the only event of the new buffer; a token built from a buffer that starts
\* with it counts it in key_count and takes no character from it.
C23_GapSpaceRetained ==
    [][/\ (tok_call'.branch = "gap" /\ IsSpace(Arg)) => buffer' = <<Arg>>
       /\ (/\ tok_call'.branch \in FlushingBranches
           /\ IsSome(tok_ret')
           /\ IsSpace(buffer[1])) =>
             /\ Unwrap(tok_ret').key_count = 1 + Len(Tail(buffer))
             /\ Unwrap(tok_ret').content = CharactersOf(Tail(buffer))]_vars

C23_Witness ==
    /\ IsSome(tok_ret)
    /\ Len(tok_call.before) = 3
    /\ tok_call.before[1] = Special("Space")
    /\ Unwrap(tok_ret).key_count = 3
    /\ Unwrap(tok_ret).content = <<"a", "b">>

\* C24: every emitted Token has non-empty content, key_count at least
\* min_token_length and key_count at least the length of its content; a
\* flush of min_token_length or more events none of which is a Character
\* yields no Token and clears the buffer.
C24_TokenWellFormed ==
    [][/\ IsSome(tok_ret') =>
             /\ Unwrap(tok_ret').content # <<>>
             /\ Unwrap(tok_ret').key_count >= config.min_token_length
             /\ Unwrap(tok_ret').key_count >= Len(Unwrap(tok_ret').content)
       /\ (/\ tok_call'.branch \in FlushingBranches
           /\ Len(buffer) >= config.min_token_length
           /\ \A i \in 1..Len(buffer) : buffer[i].key_type.kind # "Character") =>
             (tok_ret' = None /\ buffer' = BufferAfterFlush)]_vars

C24_Witness ==
    /\ tok_call.branch \in FlushingBranches
    /\ Len(tok_call.before) >= 2
    /\ NumCharacters(tok_call.before) = 0
    /\ tok_ret = None

\* C25: after every process(e), whichever branch it took, the last timestamp
\* is e's; an event that is not the space key and arrives within the gap
\* threshold returns nothing and appends exactly itself to the buffer; an
\* explicit flush() leaves the last timestamp as it was.
C25_LastTimestampTracksEvent ==
    [][/\ IsProcessStep => last_timestamp' = Some(Arg.timestamp)
       /\ (IsProcessStep /\ ~IsSpace(Arg) /\ ~TrueGapExceeded) =>
             (tok_ret' = None /\ buffer' = Append(buffer, Arg))
       /\ tok_call'.op = "flush" => last_timestamp' = last_timestamp]_vars

C25_Witness ==
    /\ tok_call.branch = "space"
    /\ IsSome(last_timestamp)
    /\ Unwrap(last_timestamp) = Unwrap(tok_call.event).timestamp
    /\ Unwrap(last_timestamp) > 0
    /\ tok_call.before # <<>>

(***************************************************************************)
(* Properties of the aggregation store (checked under SpecStore).          *)
(***************************************************************************)
\* The successful record_keystroke / record_hourly_stat calls made so far.
KeystrokeCalls == {i \in 1..Len(store_log) : store_log[i].op = "record_keystroke"}
HourlyCalls == {i \in 1..Len(store_log) : store_log[i].op = "record_hourly_stat"}

RECURSIVE SumOfCounts(_)
SumOfCounts(calls) ==
    IF calls = {} THEN 0
    ELSE LET i == CHOOSE x \in calls : TRUE
         IN  store_log[i].key_count + SumOfCounts(calls \ {i})

\* C5: after any sequence of successful record_keystroke calls on a fresh
\* store there is one Process row per distinct process name used, one Window
\* row per distinct (process, title) pair used, one KeyRecord row per call,
\* and total_keystrokes() is the sum of the recorded counts (0 when empty).
C5_RowsMatchCalls ==
    store_errors["record_keystroke"] = 0 =>
        /\ Cardinality(db.processes) =
             Cardinality({store_log[i].process : i \in KeystrokeCalls})
        /\ Cardinality(db.windows) =
             Cardinality({<<store_log[i].process, store_log[i].window>> : i \in KeystrokeCalls})
        /\ Cardinality(db.keys) = Cardinality(KeystrokeCalls)
        /\ get_total_keystrokes(db) = SumOfCounts(KeystrokeCalls)

C5_Witness ==
    /\ store_errors["record_keystroke"] = 0
    /\ Cardinality(KeystrokeCalls) = 3
    /\ Cardinality(db.processes) = 2
    /\ Cardinality(db.windows) = 2
    /\ Cardinality(db.keys) = 3
    /\ get_total_keystrokes(db) = 5

\* C6: after any sequence of record_hourly_stat calls there is at most one
\* HourlyStat row per (bucket, key_type) pair, and its count is the number of
\* successful calls made for that pair (no row when there was none).
C6_HourlyCountsCalls ==
    \A h \in HourBuckets, k \in KeyTypeNames :
        LET rows == {r \in db.hourly_stats : r.hour_bucket = h /\ r.key_type = k}
            calls == {i \in HourlyCalls :
                        store_log[i].hour_bucket = h /\ store_log[i].key_type = k}
        IN  /\ Cardinality(rows) <= 1
            /\ Cardinality(rows) = 0 <=> calls = {}
            /\ \A r \in rows : r.count = Cardinality(calls)

C6_Witness ==
    /\ Cardinality(db.hourly_stats) = 2
    /\ \E r \in db.hourly_stats : r.count = 2

\* The rows of the last query, the names in them and the sum of their totals.
QueryRows(op) == IF IsSome(query_ret) /\ Unwrap(query_ret).op = op
                 THEN Some(Unwrap(query_ret).rows) ELSE None
RowNames(rows) == {rows[i].name : i \in 1..Len(rows)}
RECURSIVE SumOfTotals(_)
SumOfTotals(rows) == IF rows = <<>> THEN 0 ELSE Head(rows).total + SumOfTotals(Tail(rows))
Descending(rows) == \A i \in 1..Len(rows), j \in 1..Len(rows) :
                        i < j => rows[i].total >= rows[j].total

\* C18: keystrokes_by_process() returns one entry per process that has at
\* least one KeyRecord, its value the sum of key_count over the successful
\* record_keystroke calls for that process whatever the window, in order of
\* descending sum; the sum of the values is total_keystrokes().
C18_ByProcessSumsPerProcess ==
    IsSome(QueryRows("get_keystrokes_by_process")) =>
        LET rows == Unwrap(QueryRows("get_keystrokes_by_process"))
        IN  /\ Cardinality(RowNames(rows)) = Len(rows)
            /\ RowNames(rows) = {store_log[i].process : i \in KeystrokeCalls}
            /\ \A i \in 1..Len(rows) :
                  rows[i].total =
                    SumOfCounts({c \in KeystrokeCalls : store_log[c].process = rows[i].name})
            /\ Descending(rows)
            /\ SumOfTotals(rows) = get_total_keystrokes(db)

C18_Witness ==
    /\ IsSome(QueryRows("get_keystrokes_by_process"))
    /\ Len(Unwrap(QueryRows("get_keystrokes_by_process"))) = 2
    /\ Unwrap(QueryRows("get_keystrokes_by_process"))[1].total = 3
    /\ Unwrap(QueryRows("get_keystrokes_by_process"))[2].total = 2
    /\ Cardinality(db.windows) = 3

\* C19: heatmap_data() returns one entry per key_type that has an hourly
\* stat, its value the number of successful record_hourly_stat calls for that
\* key_type over all hour buckets, in order of descending sum; on a store
\* with no hourly stats it returns no rows.
C19_HeatmapSumsPerKeyType ==
    IsSome(QueryRows("get_heatmap_data")) =>
        LET rows == Unwrap(QueryRows("get_heatmap_data"))
        IN  /\ Cardinality(RowNames(rows)) = Len(rows)
            /\ RowNames(rows) = {store_log[i].key_type : i \in HourlyCalls}
            /\ \A i \in 1..Len(rows) :
                  rows[i].total =
                    Cardinality({c \in HourlyCalls : store_log[c].key_type = rows[i].name})
            /\ Descending(rows)
            /\ HourlyCalls = {} => rows = <<>>

C19_Witness ==
    /\ IsSome(QueryRows("get_heatmap_data"))
    /\ Len(Unwrap(QueryRows("get_heatmap_data"))) = 2
    /\ Unwrap(QueryRows("get_heatmap_data"))[1].total = 2
    /\ Unwrap(QueryRows("get_heatmap_data"))[2].total = 1
    /\ Cardinality(db.hourly_stats) = 3

(***************************************************************************)
(* Properties of the milestones of LiveStats (checked under                *)
(* SpecMilestones).                                                        *)
(***************************************************************************)
Reached(ms) == {i \in 1..Len(ms) : IsSome(ms[i].reached_at)}
ReachedAt(ms, i) == Unwrap(ms[i].reached_at)

\* C7: once a milestone's reached_at is set, every later record() leaves that
\* milestone's reached_at unchanged; no record() changes the threshold, name
\* or position of any milestone; no milestone is returned by record() twice.
C7_ReachedAtIsFinal ==
    [][/\ Len(milestones_reached') = Len(milestones_reached)
       /\ \A i \in 1..Len(milestones_reached) :
            /\ milestones_reached'[i].threshold = milestones_reached[i].threshold
            /\ milestones_reached'[i].name = milestones_reached[i].name
            /\ IsSome(milestones_reached[i].reached_at) =>
                 milestones_reached'[i].reached_at = milestones_reached[i].reached_at
       /\ \A a, b \in 1..Len(unlock_log') :
            a # b => unlock_log'[a].threshold # unlock_log'[b].threshold]_vars

C7_Witness ==
    /\ stats_calls = MaxTotal
    /\ milestones_reached[1].reached_at = Some(1)
    /\ milestones_reached[2].reached_at = Some(0)

\* The parts of C8 that do not concern latest_milestone(): after n calls the
\* reached milestones are exactly those with threshold <= n, and the
\* milestone with threshold T was returned by the T-th call and by no other.
UnlockedByCount ==
    /\ stats_calls = total_keystrokes
    /\ \A i \in 1..Len(milestones_reached) :
         /\ IsSome(milestones_reached[i].reached_at)
              <=> milestones_reached[i].threshold <= stats_calls
         /\ milestones_reached[i].threshold <= stats_calls =>
              Cardinality({a \in 1..Len(unlock_log) :
                             unlock_log[a].threshold = milestones_reached[i].threshold}) = 1
    /\ \A a \in 1..Len(unlock_log) : unlock_log[a].call = unlock_log[a].threshold
    /\ stats_calls = 1000 => Reached(milestones_reached) = {1}

\* C8: after n sequential record() calls on a new LiveStats the reached
\* milestones are exactly those with threshold <= n, the milestone with
\* threshold T is returned by exactly the T-th call, and latest_milestone()
\* is the reached milestone with the largest threshold (nothing when
\* n < 1000); for n = 1000 only the 1000 milestone has fired.
C8_LatestIsLargestThreshold ==
    /\ UnlockedByCount
    /\ LET ms == milestones_reached
           latest == LatestMilestone(ms)
       IN  IF stats_calls < 1000 THEN latest = None
           ELSE /\ IsSome(latest)
                /\ \E i \in Reached(ms) :
                     /\ Unwrap(latest) = ms[i]
                     /\ \A j \in Reached(ms) : ms[j].threshold <= ms[i].threshold

\* C8 as amended: latest_milestone() is the reached milestone with the
\* greatest reached_at, the one with the largest threshold among several with
\* that reached_at; it is the reached milestone with the largest threshold
\* whenever no milestone was reached at an earlier wall-clock time than a
\* milestone of lower threshold.
C8_LatestIsGreatestReachedAt ==
    /\ UnlockedByCount
    /\ LET ms == milestones_reached
           latest == LatestMilestone(ms)
       IN  IF stats_calls < 1000 THEN latest = None
           ELSE /\ IsSome(latest)
                /\ \E i \in Reached(ms) :
                     /\ Unwrap(latest) = ms[i]
                     /\ \A j \in Reached(ms) :
                          \/ ReachedAt(ms, j) < ReachedAt(ms, i)
                          \/ /\ ReachedAt(ms, j) = ReachedAt(ms, i)
                             /\ ms[j].threshold <= ms[i].threshold
                     /\ (\A j, k \in Reached(ms) :
                            j < k => ReachedAt(ms, j) <= ReachedAt(ms, k))
                        => \A j \in Reached(ms) : ms[j].threshold <= ms[i].threshold

C8_Witness ==
    /\ stats_calls = 10000
    /\ milestones_reached[1].reached_at = milestones_reached[2].reached_at
    /\ Unwrap(LatestMilestone(milestones_reached)).threshold = 10000

(***************************************************************************)
(* Properties of the instance lock (checked under SpecLock).               *)
(***************************************************************************)
\* C9: under every interleaving of acquire and drop steps of any number of
\* processes, at most one process holds a successfully acquired InstanceLock
\* at any time, and an acquire that tries the lock while another process
\* holds one does not get it.
C9_AtMostOneHolder ==
    /\ Cardinality(Holders) <= 1
    /\ \A p \in Procs :
         lk_contended[p] => lk_pc[p] \notin {"locked", "truncated", "holding"}

\* C20: when a process that holds an InstanceLock drops it, the drop ends
\* with the lock file absent, the process's file closed and no lock of that
\* process left on any file; and an acquire that tries the lock on a file no
\* other process has open (as is every file created after the removal, unless
\* another acquire opens it too) gets the lock.
C20_DropReleasesAndRemoves ==
    [][ /\ \A p \in Procs :
             (lk_pc[p] = "unlocked" /\ lk_pc'[p] = "idle") =>
                 /\ fs_path' = None
                 /\ lk_fd'[p] = None
                 /\ \A i \in Inodes : inode_lock'[i] # Some(p)
        /\ \A r \in Procs :
             ( /\ lk_pc[r] = "opened" /\ lk_pc'[r] # "opened"
               /\ \A q \in Procs \ {r} : lk_fd[q] # lk_fd[r] ) =>
                 lk_pc'[r] = "locked"
      ]_vars

\* A process that was refused while another held the lock has now locked the
\* file the path names, and every other process has dropped and is idle.
C20_Witness ==
    \E r \in Procs :
        /\ lk_pc[r] = "locked"
        /\ lk_result[r].kind = "AlreadyRunning"
        /\ fs_path = lk_fd[r]
        /\ \A q \in Procs \ {r} : lk_pc[q] = "idle" /\ lk_fd[q] = None

(***************************************************************************)
(* Properties of the consumer loop (checked under SpecDaemon).             *)
(***************************************************************************)
\* C10: the consumer processes events in exactly the order the capture thread
\* sent them: what process_event has handled, followed by the event it is
\* handling, is at every moment an initial part of what was sent, so a is
\* handled to the end before b whenever a was sent before b.
C10_ProcessedInSendOrder ==
    LET started == processed \o current_event
    IN  /\ Len(started) <= Len(sent)
        /\ started = SubSeq(sent, 1, Len(started))

C10_Witness ==
    /\ Len(processed) = 3
    /\ processed[1] # processed[2]
    /\ processed[2] # processed[3]
    /\ processed = sent

\* The event a step hands to process_event, and the number of times the store
\* has been asked to perform an operation.
IsProcessEventStep == processed' # processed
ProcessedEvent == processed'[Len(processed')]
StoreAttempts(log, errors, op) ==
    Cardinality({i \in 1..Len(log) : log[i].op = op}) + errors[op]

\* C13: each event the consumer drains is fed to all three consumers: the
\* Tokenizer's process is called with it, the Statistics Engine records it
\* and the Aggregation Store is asked to write it.
C13_EventFedToAllThree ==
    [][IsProcessEventStep =>
          /\ tok_call'.op = "process"
          /\ tok_call'.event = Some(ProcessedEvent)
          /\ total_keystrokes' = total_keystrokes + 1
          /\ StoreAttempts(store_log', store_errors', "record_keystroke")
               = StoreAttempts(store_log, store_errors, "record_keystroke") + 1]_vars

\* C14: when the capture source fails to start, what Daemon::start returns is
\* an error.
C14_CaptureFailurePropagates ==
    (capture_state = "failed" /\ IsSome(daemon_ret)) => ~Unwrap(daemon_ret).ok

\* C15: a failed store write never stops the consumer loop: whatever the two
\* writes return, process_event records the event in the live statistics,
\* attempts both writes, and the loop goes on draining with no result decided
\* for Daemon::start.
C15_WriteFailureNotFatal ==
    [][IsProcessEventStep =>
          /\ total_keystrokes' = total_keystrokes + 1
          /\ recent_events' # <<>>
          /\ StoreAttempts(store_log', store_errors', "record_keystroke")
               = StoreAttempts(store_log, store_errors, "record_keystroke") + 1
          /\ StoreAttempts(store_log', store_errors', "record_hourly_stat")
               = StoreAttempts(store_log, store_errors, "record_hourly_stat") + 1
          /\ consumer_pc' = "drain"
          /\ daemon_ret' = None]_vars

C15_Witness ==
    /\ Len(processed) = 3
    /\ store_errors["record_keystroke"] = 2
    /\ store_errors["record_hourly_stat"] = 2
    /\ Len(store_log) = 2
    /\ total_keystrokes = 3

(***************************************************************************)
(* Properties of the daemon's life (checked under SpecDaemonFair, where    *)
(* the main thread keeps running).                                         *)
(***************************************************************************)
\* C11: every event the capture thread sends on the channel is eventually
\* processed by the consumer: the i-th event sent becomes the i-th event
\* processed.
C11_EverySentEventProcessed ==
    \A i \in 1..MaxSent :
        (Len(sent) >= i) ~> (Len(processed) >= i /\ processed[i] = sent[i])

IsRecordStep == stats_calls' # stats_calls

\* C16: after record() at time now the recent sequence is the previously
\* retained timestamps that are not older than now - window_duration, in
\* order, followed by now (an entry exactly at the cutoff is kept); total()
\* counts every call of record, so events_in_window() <= total().
C16_WindowAfterRecord ==
    [][IsRecordStep =>
          LET now == mono_clock'
              NotExpired(t) == t >= now - window_duration
          IN  /\ recent_events' = Append(SelectSeq(recent_events, NotExpired), now)
              /\ total_keystrokes' = total_keystrokes + 1
              /\ total_keystrokes' = stats_calls'
              /\ Len(recent_events') <= total_keystrokes']_vars

C16_Witness ==
    /\ window_duration > 0
    /\ Len(recent_events) >= 2
    /\ recent_events[1] = mono_clock - window_duration
    /\ total_keystrokes > Len(recent_events)

\* The f64 nearest to n * 60 / w, and the f64 values at most two units in the
\* last place away from a positive finite x.
ExactApm(n, w) == FDivInts(n * SecsPerMinute, w)
Near(x) == {x, NextUp(x), NextUp(NextUp(x))}
WithinTwoUlps(x, y) ==
    \/ x = y
    \/ x.kind = "finite" /\ y.kind = "finite" /\ (x \in Near(y) \/ y \in Near(x))
NoneEvicted == total_keystrokes = Len(recent_events)

\* C17 as stated: for N record() calls that all fall within one window of W
\* seconds apm() equals N * 60 / W, and on a new LiveStats apm() is 0.
C17_ApmIsExact ==
    /\ (window_duration > 0 /\ NoneEvicted) =>
          apm(recent_events, window_duration) = ExactApm(Len(recent_events), window_duration)
    /\ total_keystrokes = 0 => apm(recent_events, window_duration) = FZero

\* C17, amended: for a window of W > 0 seconds and N record() calls none of
\* which was evicted, apm() is within two units in the last place of
\* N * 60 / W, and it is 0 on a new LiveStats.
C17_ApmWithinTolerance ==
    window_duration > 0 =>
        /\ NoneEvicted =>
              WithinTwoUlps(apm(recent_events, window_duration),
                            ExactApm(Len(recent_events), window_duration))
        /\ total_keystrokes = 0 => apm(recent_events, window_duration) = FZero

C17_Witness ==
    /\ window_duration = 11
    /\ NoneEvicted
    /\ Len(recent_events) = 2
    /\ apm(recent_events, window_duration) # ExactApm(2, 11)

(***************************************************************************)
(* Properties of record(): milestones (checked under SpecMilestones) and   *)
(* the streak (checked under SpecStreak).                                  *)
(***************************************************************************)
\* C26: a record() call sets the reached_at of at most one milestone; when
\* some milestone has no reached_at and a threshold <= the new total, the
\* call sets the reached_at of the one of lowest threshold among them and
\* returns it; otherwise it sets none and returns nothing.
C26_UnlocksLowestCandidate ==
    [][IsRecordStep =>
          LET ms == milestones_reached
              candidates == {i \in 1..Len(ms) : ms[i].reached_at = None
                                                 /\ ms[i].threshold <= total_keystrokes'}
              newly == {i \in 1..Len(ms) : ms[i].reached_at = None
                                            /\ IsSome(milestones_reached'[i].reached_at)}
          IN  /\ Cardinality(newly) <= 1
              /\ IF candidates = {}
                 THEN newly = {} /\ stats_ret' = None
                 ELSE \E i \in candidates :
                         /\ \A j \in candidates : ms[i].threshold <= ms[j].threshold
                         /\ newly = {i}
                         /\ stats_ret' = Some(milestones_reached'[i])]_vars

C26_Witness ==
    /\ total_keystrokes = 10000
    /\ IsSome(stats_ret)
    /\ Unwrap(stats_ret).threshold = 10000
    /\ IsSome(milestones_reached[1].reached_at)
    /\ milestones_reached[3].reached_at = None

\* The calendar date of the wall-clock reading of the latest record().
RecordDate == Unwrap(wall_clock) \div TicksPerDay

\* C27: the first record() sets the streak to 1; a record() on the date of
\* last_active_date leaves the streak unchanged; a record() on the date one
\* day after last_active_date adds 1 to the streak; after any record() the
\* streak is at least 1 and last_active_date is the date of that record().
C27_StreakUpdate ==
    [][IsRecordStep =>
          LET today == RecordDate'
          IN  /\ last_active_date = None => current_streak' = 1
              /\ last_active_date = Some(today) => current_streak' = current_streak
              /\ last_active_date = Some(today - 1) => current_streak' = current_streak + 1
              /\ current_streak' >= 1
              /\ last_active_date' = Some(today)]_vars

C27_Witness ==
    /\ current_streak = 3
    /\ stats_calls = 4
    /\ last_active_date = Some(2)
    /\ RecordDate = 2

\* C28: a record() whose date differs from last_active_date and is not the
\* day after it resets the streak to 1, whichever way the wall clock moved.
C28_OtherDateResetsStreak ==
    [][(/\ IsRecordStep
        /\ IsSome(last_active_date)
        /\ RecordDate' # Unwrap(last_active_date)
        /\ RecordDate' # Unwrap(last_active_date) + 1) =>
          current_streak' = 1]_vars

(***************************************************************************)
(* Properties of kps() (checked under SpecKps).                            *)
(***************************************************************************)
IsKpsStep == kps_ret' # kps_ret
RecordedInTrailing(now) ==
    Cardinality({i \in 1..Len(trailing_records) : trailing_records[i] >= now - KpsWindowSecs})

\* C29: kps() is the number of keystrokes recorded in the 5 seconds up to the
\* time of the query, divided by 5, whatever window_duration the LiveStats
\* was configured with.
C29_KpsCountsTrailingFive ==
    [][IsKpsStep =>
          Unwrap(kps_ret').value = FDivInts(RecordedInTrailing(mono_clock'), KpsDivisor)]_vars

(***************************************************************************)
(* Properties of record_keystroke (checked under SpecStore).               *)
(***************************************************************************)
IsKeystrokeOkStep ==
    /\ Len(store_log') = Len(store_log) + 1
    /\ store_log'[Len(store_log')].op = "record_keystroke"
RowIds(rows) == {r.id : r \in rows}

\* C30: a successful record_keystroke adds exactly one KeyRecord row, for the
\* window and count it was given, keeps every existing KeyRecord, Process and
\* Window row as it was, and returns the new row's identifier, which is
\* positive and is no identifier of an earlier row; the identifier a
\* successful call returned is the identifier of a row of the table from
\* then on, so no later call returns it again.
C30_KeystrokeAppendOnly ==
    [][/\ IsKeystrokeOkStep =>
            LET call == store_log'[Len(store_log')]
            IN  /\ db.keys \subseteq db'.keys
                /\ db.processes \subseteq db'.processes
                /\ db.windows \subseteq db'.windows
                /\ db'.hourly_stats = db.hourly_stats
                /\ Cardinality(db'.keys \ db.keys) = 1
                /\ \A new \in db'.keys \ db.keys :
                     /\ new.key_count = call.key_count
                     /\ \E w \in db'.windows, p \in db'.processes :
                          /\ w.id = new.window_id /\ w.title = call.window
                          /\ p.id = w.process_id /\ p.name = call.process
                     /\ store_ret' = Ok(new.id)
                     /\ new.id > 0
                     /\ new.id \notin RowIds(db.keys)
       /\ \A id \in RowIds(db.keys) : id \in RowIds(db'.keys)
       /\ (store_ret'.ok /\ store_ret'.val # 0) => store_ret'.val \in RowIds(db'.keys)
       /\ Cardinality(RowIds(db'.keys)) = Cardinality(db'.keys)]_vars

C30_Witness ==
    /\ Cardinality(KeystrokeCalls) = 3
    /\ Cardinality(db.keys) = 3
    /\ Cardinality(db.windows) = 1
    /\ store_ret = Ok(3)

(***************************************************************************)
(* Properties of a held and of a refused instance lock (checked under      *)
(* SpecLock).                                                              *)
(***************************************************************************)
TryLockRefused(q) == lk_pc[q] = "opened" /\ lk_pc'[q] = "denied"
AcquireFailed(q) == lk_pc[q] = "denied" /\ lk_pc'[q] = "idle"
OpenedExisting(q) == lk_pc[q] = "idle" /\ lk_pc'[q] = "opened" /\ IsSome(fs_path)

\* C32: while a process holds an InstanceLock the lock file exists and its
\* text is the holder's process id in decimal; another process that tries
\* the lock meanwhile is refused, and its acquire returns AlreadyRunning
\* with exactly that process id.
C32_FileNamesHolder ==
    [][/\ \A p \in Procs :
            lk_pc'[p] = "holding" =>
               /\ IsSome(fs_path')
               /\ trim(inode_content'[Unwrap(fs_path')]) = to_string(ProcessId(p))
       /\ \A q \in Procs :
            /\ (lk_pc[q] = "opened" /\ lk_pc'[q] # "opened" /\ Holders \ {q} # {}) =>
                  lk_pc'[q] = "denied"
            /\ AcquireFailed(q) =>
                  \A p \in Holders \ {q} :
                     lk_result'[q] = [kind |-> "AlreadyRunning", pid |-> Some(ProcessId(p))]
      ]_vars

\* C39: the steps of an acquire that fails (opening the existing lock file,
\* the refused try-lock, the Err arm that reads the file and closes it)
\* leave the lock file in place with its text, leave every lock on every
\* file with its owner, and leave every other process where it was: the
\* holder's lock still refuses a later try-lock on its file.
C39_FailedAcquireHarmless ==
    [][\A q \in Procs :
          (OpenedExisting(q) \/ TryLockRefused(q) \/ AcquireFailed(q)) =>
             /\ fs_path' = fs_path
             /\ inode_content' = inode_content
             /\ inode_lock' = inode_lock
             /\ \A p \in Procs \ {q} : lk_pc'[p] = lk_pc[p] /\ lk_fd'[p] = lk_fd[p]
             /\ \A p \in Holders \ {q} :
                  /\ lk_pc'[p] = "holding"
                  /\ inode_lock'[Unwrap(lk_fd[p])] = Some(p)
      ]_vars

C39_Witness ==
    \E p, q \in Procs :
        /\ p # q
        /\ lk_pc[p] = "holding"
        /\ lk_pc[q] = "idle"
        /\ lk_result[q] = [kind |-> "AlreadyRunning", pid |-> Some(ProcessId(p))]
        /\ fs_path = lk_fd[p]
        /\ inode_content[Unwrap(fs_path)] = PidLine(ProcessId(p))
        /\ inode_lock[Unwrap(fs_path)] = Some(p)

\* A step of the main thread inside the drain of a tick, and the step on
\* which the loop is left.
InDrain == consumer_pc \in {"drain", "process"}
DrainEnds == consumer_pc = "drain" /\ consumer_pc' = "sleep"
LoopExits == consumer_pc \in LoopPcs /\ consumer_pc' \notin LoopPcs

\* C31: within a tick the drain runs until the channel is observed empty
\* before the consumer sleeps, and the shutdown flag is read only between
\* ticks: a step taken inside the drain stays in the drain or ends it by
\* going to sleep, whatever the flag; the drain ends only on an empty
\* channel, with every event sent so far processed; the loop is left only
\* at the loop head with the flag false; and every event queued when a
\* receive of the drain runs is eventually processed.
C31_DrainCompletesBeforeFlag ==
    /\ [][/\ InDrain /\ consumer_pc' # consumer_pc
                => consumer_pc' \in {"drain", "process", "sleep"}
          /\ DrainEnds => channel = <<>> /\ processed = sent
          /\ LoopExits => consumer_pc = "check" /\ ~running]_vars
    /\ \A n \in 0..MaxSent :
          (consumer_pc = "drain" /\ Len(sent) = n) ~> (Len(processed) >= n)

\* The flag was set while events were still queued, and the drain went on.
C31_Witness ==
    /\ ~running
    /\ consumer_pc = "drain"
    /\ processed # <<>>
    /\ channel # <<>>

\* The daemon's InstanceLock: it holds the locked file, and it has given it
\* up (no descriptor, no lock of its own on any file).
DaemonHoldsLock ==
    /\ lk_pc[DaemonProc] = "holding"
    /\ IsSome(lk_fd[DaemonProc])
    /\ inode_lock[Unwrap(lk_fd[DaemonProc])] = Some(DaemonProc)
DaemonLockReleased ==
    /\ lk_pc[DaemonProc] # "holding"
    /\ lk_fd[DaemonProc] = None
    /\ \A i \in Inodes : inode_lock[i] # Some(DaemonProc)
StoreUntouched == db = EmptyDb /\ store_log = <<>>

HourlyCount(d, hour_bucket, key_type) ==
    SumCount({r \in d.hourly_stats : r.hour_bucket = hour_bucket /\ r.key_type = key_type})
FiledUnder(d, k) ==
    {<<p.name, w.title>> : <<p, w>> \in
        {<<p, w>> \in d.processes \X d.windows : w.id = k.window_id /\ p.id = w.process_id}}
NoStoreFailureInStep == store_errors' = store_errors
NoStoreFailureYet == \A op \in DOMAIN store_errors : store_errors[op] = 0

\* C34: for each event the consumer processes without a storage failure,
\* record() is called exactly once, exactly one keys row with key_count 1 is
\* appended under process "Unknown" / window "Unknown", and the hourly_stats
\* count of (the event's timestamp in seconds divided by 3600, the name of
\* its key type) rises by exactly 1 while every other count stays; hence,
\* while no store call has failed, total_keystrokes() == LiveStats.total()
\* == the sum of the heatmap_data() counts == the number of processed events.
C34_EventCountedOnceEverywhere ==
    /\ [][IsProcessEventStep /\ NoStoreFailureInStep =>
            LET e == ProcessedEvent
                bucket == e.timestamp \div (TicksPerSecond * SecondsPerHour)
                added == db'.keys \ db.keys
            IN  /\ Len(processed') = Len(processed) + 1
                /\ stats_calls' = stats_calls + 1
                /\ total_keystrokes' = total_keystrokes + 1
                /\ db.keys \subseteq db'.keys
                /\ Cardinality(added) = 1
                /\ \A k \in added : k.key_count = 1
                                      /\ FiledUnder(db', k) = {<<"Unknown", "Unknown">>}
                /\ \A b \in {r.hour_bucket : r \in db.hourly_stats \cup db'.hourly_stats} \cup {bucket},
                      n \in {r.key_type : r \in db.hourly_stats \cup db'.hourly_stats}
                                \cup {KeyType_name(e.key_type)} :
                      HourlyCount(db', b, n) = HourlyCount(db, b, n)
                          + (IF b = bucket /\ n = KeyType_name(e.key_type) THEN 1 ELSE 0)]_vars
    /\ [](NoStoreFailureYet =>
            /\ get_total_keystrokes(db) = Len(processed)
            /\ total_keystrokes = Len(processed)
            /\ \A rows \in get_heatmap_data(db) : SumOfTotals(rows) = Len(processed))

\* Three events of both hours and both key types were processed with no
\* store failure.
C34_Witness ==
    /\ NoStoreFailureYet
    /\ Len(processed) = 3
    /\ Cardinality({r.hour_bucket : r \in db.hourly_stats}) = 2
    /\ Cardinality({r.key_type : r \in db.hourly_stats}) = 2
    /\ get_total_keystrokes(db) = 3

\* The gap threshold in ticks, and the true time between two consecutive
\* events of a buffer.
ThresholdTicks == config.gap_threshold_ms * TicksPerMs
TrueGaps(buf) == {buf[i + 1].timestamp - buf[i].timestamp : i \in 1..(Len(buf) - 1)}

\* C35: for every emitted Token, any two consecutive events of the buffer it
\* was built from are at most gap_threshold apart, so ended_at - started_at
\* <= (key_count - 1) * gap_threshold.
C35_TokenSpansNoGap ==
    [][tok_call'.branch \in FlushingBranches /\ IsSome(tok_ret') =>
            /\ \A g \in TrueGaps(buffer) : g <= ThresholdTicks
            /\ Unwrap(tok_ret').ended_at - Unwrap(tok_ret').started_at
                  <= (Unwrap(tok_ret').key_count - 1) * ThresholdTicks]_vars

\* A step in which record_keystroke returned an error.
IsKeystrokeErrStep ==
    store_errors'["record_keystroke"] = store_errors["record_keystroke"] + 1

\* C37: if record_keystroke returns an error at any of its statements, no
\* keys row has been added and total_keystrokes() and
\* keystrokes_by_process() are unchanged from before the call.
C37_FailedKeystrokeAddsNothing ==
    [][IsKeystrokeErrStep =>
            /\ db'.keys = db.keys
            /\ get_total_keystrokes(db') = get_total_keystrokes(db)
            /\ get_keystrokes_by_process(db') = get_keystrokes_by_process(db)]_vars

\* A call failed after its first statements had inserted a process row and a
\* window row, next to keystrokes recorded before.
C37_Witness ==
    /\ store_errors["record_keystroke"] > 0
    /\ db.keys # {}
    /\ \E p \in db.processes : KeysOfProcess(db, p.id) = {}
    /\ \E w \in db.windows : KeysOfWindow(db, w.id) = {}

\* The steps in which record_keystroke and record_hourly_stat were called,
\* whatever they returned.
CalledInStep(op) ==
    \/ store_errors'[op] = store_errors[op] + 1
    \/ /\ Len(store_log') = Len(store_log) + 1
       /\ store_log'[Len(store_log')].op = op

\* C38: the two aggregation paths are independent: record_keystroke never
\* changes a hourly_stats row or the result of heatmap_data(), and
\* record_hourly_stat never changes a processes, windows or keys row or the
\* results of total_keystrokes() and keystrokes_by_process().
C38_PathsIndependent ==
    [][/\ CalledInStep("record_keystroke") =>
            /\ db'.hourly_stats = db.hourly_stats
            /\ get_heatmap_data(db') = get_heatmap_data(db)
       /\ CalledInStep("record_hourly_stat") =>
            /\ db'.processes = db.processes
            /\ db'.windows = db.windows
            /\ db'.keys = db.keys
            /\ get_total_keystrokes(db') = get_total_keystrokes(db)
            /\ get_keystrokes_by_process(db') = get_keystrokes_by_process(db)]_vars

\* Both paths have been written, the hourly one last and onto a row it had
\* written before.
C38_Witness ==
    /\ Len(store_log) = 3
    /\ store_log[1].op = "record_hourly_stat"
    /\ store_log[2].op = "record_keystroke"
    /\ store_log[3].op = "record_hourly_stat"
    /\ \E r \in db.hourly_stats : r.count = 2
    /\ db.keys # {}

\* a is a subsequence of b: b with some elements left out.
RECURSIVE IsSubsequence(_, _)
IsSubsequence(a, b) ==
    IF a = <<>> THEN TRUE
    ELSE IF b = <<>> THEN FALSE
    ELSE IF Head(a) = Head(b) THEN IsSubsequence(Tail(a), Tail(b))
    ELSE IsSubsequence(a, Tail(b))

\* The contents of the emitted tokens, concatenated in emission order, and
\* the number of events the tokens were built from.
RECURSIVE EmittedContent(_)
EmittedContent(tokens) ==
    IF tokens = <<>> THEN <<>> ELSE Head(tokens).content \o EmittedContent(Tail(tokens))
RECURSIVE EmittedKeyCount(_)
EmittedKeyCount(tokens) ==
    IF tokens = <<>> THEN 0 ELSE Head(tokens).key_count + EmittedKeyCount(Tail(tokens))

\* C36: for any input event sequence, the concatenation of the contents of
\* all emitted Tokens, in emission order, followed by the characters still
\* buffered, is a subsequence of the Character events of the input in input
\* order (after a final flush() nothing is buffered): no character is
\* duplicated across tokens, reordered or invented, and each input event
\* belongs to at most one token or to the buffer.
C36_TokensPartitionInput ==
    /\ IsSubsequence(EmittedContent(tok_emitted) \o CharactersOf(buffer),
                     CharactersOf(tok_input))
    /\ EmittedKeyCount(tok_emitted) + Len(buffer) <= Len(tok_input)
    /\ tok_call.op = "flush" => buffer = <<>>

\* Two tokens were emitted from a stream of three events, the second by the
\* final flush.
C36_Witness ==
    /\ Len(tok_input) = MaxStream
    /\ Len(tok_emitted) = 2
    /\ tok_call.op = "flush"
    /\ IsSome(tok_ret)
    /\ buffer = <<>>

\* C40: while a daemon started through Daemon::start is running and holds
\* the instance lock, Daemon::is_running() reports true; after that daemon
\* has stopped it reports false.
C40_IsRunningTracksDaemon ==
    IsSome(is_running_ret) =>
        LET r == Unwrap(is_running_ret)
        IN  /\ r.at \in LoopPcs => r.val
            /\ r.at = "returned" => ~r.val

====
